---------------------------- MODULE Spec2Model ----------------------------
(***************************************************************************)
(* Model of the query engine of bible-search/bible_search.py (class        *)
(* BibleSearch): query classification, reference parsing, word-query       *)
(* compilation and the highlighter.                                        *)
(*                                                                         *)
(* A Python str is modelled as a sequence of one-character strings, so     *)
(* that slicing, case folding and regular-expression matching are computed *)
(* character by character as the interpreter computes them.  Offsets are   *)
(* 0-based as in Python: offset p names the gap before character p+1.      *)
(***************************************************************************)
EXTENDS Integers, Naturals, Sequences, FiniteSets, TLC

VARIABLES
    pc,             \* which operation has run on the inputs
    query,          \* the query string handed to the operation
    text,           \* the verse text handed to highlight_search_terms
    case_sensitive, \* the case_sensitive flag of build_word_search_query
    compiled,       \* result of build_word_search_query
    highlighted,    \* result of highlight_search_terms (with its span lists)
    search_type,    \* result of detect_search_type
    verse_ref,      \* result of parse_verse_reference
    book_rows,      \* the rows load_books read from the books table
    canonical_book, \* result of normalize_book_name
    translations,   \* self.translations
    database,       \* the store: its books table and its verse texts
    failing,        \* translations whose statement raises sqlite3.Error
    enabled_translations, \* argument of search_verses
    unique_verses,  \* argument of search_verses
    abbreviate_results,   \* argument of search_verses
    reading,        \* arguments of get_continuous_reading
    results,        \* what search_verses or get_continuous_reading returned
    connections     \* number of storage connections that are open

queryVars == <<query, text, case_sensitive>>
storeVars == <<book_rows, translations, database, failing>>
searchVars == <<enabled_translations, unique_verses, abbreviate_results,
                reading>>
outVars == <<compiled, highlighted, search_type, verse_ref, canonical_book,
            results>>

vars == <<pc, queryVars, storeVars, searchVars, outVars, connections>>

None == [none |-> TRUE]

-----------------------------------------------------------------------------
(* Characters and Python str primitives                                    *)

LowerLetters == <<"a","b","c","d","e","f","g","h","i","j","k","l","m",
                  "n","o","p","q","r","s","t","u","v","w","x","y","z">>
UpperLetters == <<"A","B","C","D","E","F","G","H","I","J","K","L","M",
                  "N","O","P","Q","R","S","T","U","V","W","X","Y","Z">>
Digits == <<"0","1","2","3","4","5","6","7","8","9">>

Range(s) == {s[i] : i \in 1..Len(s)}

IsLowerChar(c) == c \in Range(LowerLetters)
IsUpperChar(c) == c \in Range(UpperLetters)
IsAlpha(c) == IsLowerChar(c) \/ IsUpperChar(c)
IsDigit(c) == c \in Range(Digits)
\* \w of the re module
IsWord(c) == IsAlpha(c) \/ IsDigit(c) \/ c = "_"
\* \s of the re module, and the characters str.strip() removes
IsSpace(c) == c \in {" ", "\t", "\n", "\r"}

LowerChar(c) ==
    IF IsUpperChar(c)
    THEN LowerLetters[CHOOSE i \in 1..26 : UpperLetters[i] = c]
    ELSE c
UpperChar(c) ==
    IF IsLowerChar(c)
    THEN UpperLetters[CHOOSE i \in 1..26 : LowerLetters[i] = c]
    ELSE c

\* str.lower() and str.upper()
Lower(s) == [i \in 1..Len(s) |-> LowerChar(s[i])]
Upper(s) == [i \in 1..Len(s) |-> UpperChar(s[i])]

\* s[a:b] for 0 <= a, with Python's clamping of the bounds
Slice(s, a, b) ==
    LET hi == IF b > Len(s) THEN Len(s) ELSE b
    IN  IF a >= hi THEN <<>> ELSE SubSeq(s, a + 1, hi)

\* str.strip()
RECURSIVE LStrip(_)
LStrip(s) == IF s # <<>> /\ IsSpace(Head(s)) THEN LStrip(Tail(s)) ELSE s
RECURSIVE RStrip(_)
RStrip(s) ==
    IF s # <<>> /\ IsSpace(s[Len(s)]) THEN RStrip(SubSeq(s, 1, Len(s) - 1))
    ELSE s
Strip(s) == RStrip(LStrip(s))

\* s.startswith(c) / s.endswith(c) for a one-character c
StartsWith(s, c) == s # <<>> /\ s[1] = c
EndsWith(s, c) == s # <<>> /\ s[Len(s)] = c

\* str.replace(old, new) for one-character old and new
Replace(s, old, new) == [i \in 1..Len(s) |-> IF s[i] = old THEN new ELSE s[i]]

\* sep.join(parts)
RECURSIVE Join(_, _)
Join(parts, sep) ==
    IF parts = <<>> THEN <<>>
    ELSE IF Len(parts) = 1 THEN parts[1]
    ELSE parts[1] \o sep \o Join(Tail(parts), sep)

-----------------------------------------------------------------------------
(* re.findall(r'"[^"]*"|[^\s]+', query)                                    *)

\* end offset of the run of characters from offset p on that satisfy
\* "is not a double quote"
RECURSIVE SkipNonQuote(_, _)
SkipNonQuote(s, p) ==
    IF p < Len(s) /\ s[p + 1] # "\"" THEN SkipNonQuote(s, p + 1) ELSE p

RECURSIVE SkipNonSpace(_, _)
SkipNonSpace(s, p) ==
    IF p < Len(s) /\ ~IsSpace(s[p + 1]) THEN SkipNonSpace(s, p + 1) ELSE p

\* end offset of a match of "[^"]*" at offset p, or -1
QuotedEnd(s, p) ==
    IF p < Len(s) /\ s[p + 1] = "\""
    THEN LET e == SkipNonQuote(s, p + 1)
         IN  IF e < Len(s) THEN e + 1 ELSE -1
    ELSE -1

RECURSIVE FindTerms(_, _)
FindTerms(s, p) ==
    IF p >= Len(s) THEN <<>>
    ELSE LET q == QuotedEnd(s, p)
             w == SkipNonSpace(s, p)
         IN  IF q # -1 THEN <<Slice(s, p, q)>> \o FindTerms(s, q)
             ELSE IF w > p THEN <<Slice(s, p, w)>> \o FindTerms(s, w)
             ELSE FindTerms(s, p + 1)

-----------------------------------------------------------------------------
(* Word Query Compiler                                                     *)

convert_wildcard_to_sql(word) == Replace(Replace(word, "*", "%"), "?", "_")

IsOperator(part) == Upper(part) \in {<<"A","N","D">>, <<"O","R">>}

IsQuoted(part) == StartsWith(part, "\"") /\ EndsWith(part, "\"")

\* the parts that become conditions, and the parts that become operators,
\* each in query order
RECURSIVE SelectParts(_, _)
SelectParts(parts, wantOp) ==
    IF parts = <<>> THEN <<>>
    ELSE (IF IsOperator(Head(parts)) = wantOp THEN <<Head(parts)>> ELSE <<>>)
         \o SelectParts(Tail(parts), wantOp)

\* like_pattern built from the term with a leading `!` removed
like_pattern_StripBang(part) ==
    LET bare == IF StartsWith(part, "!") THEN Tail(part) ELSE part
        search_term == IF IsQuoted(bare)
                       THEN Slice(bare, 1, Len(bare) - 1)
                       ELSE convert_wildcard_to_sql(bare)
    IN  <<"%">> \o search_term \o <<"%">>

like_pattern(part) ==
    LET search_term == IF IsQuoted(part)
                       THEN Slice(part, 1, Len(part) - 1)
                       ELSE convert_wildcard_to_sql(part)
    IN  <<"%">> \o search_term \o <<"%">>

\* a condition negated per term (by the term's own `!` prefix) as well
Condition_PerTermNegation(part, cs, not_search) ==
    [kind |-> "cond", negated |-> not_search \/ StartsWith(part, "!"),
     case_sensitive |-> cs,
     pattern |-> <<"%">> \o convert_wildcard_to_sql(part) \o <<"%">>]

\* one "LIKE ?" condition of the predicate; pattern is the parameter the
\* placeholder of this condition is meant for
Condition(part, cs, not_search) ==
    [kind |-> "cond", negated |-> not_search, case_sensitive |-> cs,
     pattern |-> like_pattern(part)]

Joiner(op) == [kind |-> "op", op |-> op]

\* where_clause as the sequence of its conditions and operators, left to
\* right (lines 241-248)
RECURSIVE AppendOperators(_, _, _, _)
AppendOperators(clause, operators, sql_conditions, i) ==
    IF i > Len(operators) THEN clause
    ELSE AppendOperators(
            IF i + 1 <= Len(sql_conditions)
            THEN clause \o <<Joiner(operators[i]), sql_conditions[i + 1]>>
            ELSE clause,
            operators, sql_conditions, i + 1)

RECURSIVE JoinAnd(_)
JoinAnd(sql_conditions) ==
    IF sql_conditions = <<>> THEN <<>>
    ELSE IF Len(sql_conditions) = 1 THEN sql_conditions
    ELSE <<Head(sql_conditions), Joiner(<<"A","N","D">>)>>
         \o JoinAnd(Tail(sql_conditions))

build_word_search_query(q, cs) ==
    LET not_search == StartsWith(q, "!")
        q1 == IF not_search THEN Strip(Tail(q)) ELSE q
        parts == FindTerms(q1, 0)
        operatorParts == SelectParts(parts, TRUE)
        operators == [i \in 1..Len(operatorParts) |-> Upper(operatorParts[i])]
        termParts == SelectParts(parts, FALSE)
        sql_conditions ==
            [i \in 1..Len(termParts) |-> Condition(termParts[i], cs, not_search)]
        search_terms ==
            [i \in 1..Len(termParts) |-> like_pattern(termParts[i])]
    IN  IF operators = <<>>
        THEN [raised |-> FALSE, not_search |-> not_search, parts |-> parts,
              sql_conditions |-> sql_conditions,
              where_clause |-> JoinAnd(sql_conditions),
              search_terms |-> search_terms]
        ELSE IF sql_conditions = <<>>
        THEN \* sql_conditions[0] raises IndexError
             [raised |-> TRUE, not_search |-> not_search, parts |-> parts,
              sql_conditions |-> sql_conditions,
              where_clause |-> <<>>, search_terms |-> search_terms]
        ELSE [raised |-> FALSE, not_search |-> not_search, parts |-> parts,
              sql_conditions |-> sql_conditions,
              where_clause |->
                  AppendOperators(<<sql_conditions[1]>>, operators,
                                  sql_conditions, 1),
              search_terms |-> search_terms]

-----------------------------------------------------------------------------
(* The store and what the constructor loads from it                        *)

\* the rows of the books table, in order_index order
BookRows ==
    << [name |-> <<"G","e","n","e","s","i","s">>,
        abbrev |-> <<"G","e","n">>, order_index |-> 1],
       [name |-> <<"1"," ","S","a","m","u","e","l">>,
        abbrev |-> <<"1","S","a">>, order_index |-> 9],
       [name |-> <<"J","o","h","n">>,
        abbrev |-> <<"J","h","n">>, order_index |-> 43],
       [name |-> <<"1"," ","C","o","r","i","n","t","h","i","a","n","s">>,
        abbrev |-> <<"1","C","o">>, order_index |-> 46],
       [name |-> <<"1"," ","J","o","h","n">>,
        abbrev |-> <<"1","J","n">>, order_index |-> 62] >>

\* a book the store holds that the registry was not loaded with
UnregisteredBook ==
    [name |-> <<"E","n","o","c","h">>, abbrev |-> <<"E","n","o">>, order_index |-> 70]

\* the rows of the translations table, in id order
TranslationRows ==
    << [abbreviation |-> "KJV", name |-> "King James Version"],
       [abbreviation |-> "ASV", name |-> "American Standard Version"],
       [abbreviation |-> "WEB", name |-> "World English Bible"] >>

\* self.translations after load_translations has read rows
load_translations(rows) ==
    [i \in 1..Len(rows) |->
        [abbreviation |-> rows[i].abbreviation, full_name |-> rows[i].name,
         enabled |-> TRUE, sort_order |-> i]]

\* self.translations after the user's preferences were applied: the list
\* is sorted by sort_order, and two translations may share a sort_order
ReorderedTranslations ==
    << [abbreviation |-> "ASV", full_name |-> "American Standard Version",
        enabled |-> TRUE, sort_order |-> 1],
       [abbreviation |-> "KJV", full_name |-> "King James Version",
        enabled |-> TRUE, sort_order |-> 2],
       [abbreviation |-> "WEB", full_name |-> "World English Bible",
        enabled |-> FALSE, sort_order |-> 3] >>

TiedTranslations ==
    << [abbreviation |-> "KJV", full_name |-> "King James Version",
        enabled |-> TRUE, sort_order |-> 1],
       [abbreviation |-> "ASV", full_name |-> "American Standard Version",
        enabled |-> TRUE, sort_order |-> 1],
       [abbreviation |-> "WEB", full_name |-> "World English Bible",
        enabled |-> TRUE, sort_order |-> 2] >>

TranslationLists ==
    {load_translations(TranslationRows), ReorderedTranslations,
     TiedTranslations}

\* one row of verse_texts joined with its verse, book and translation
VerseText(translation, abbrev, chapter, verse, txt) ==
    [translation |-> translation, book |-> abbrev, chapter |-> chapter,
     verse |-> verse, text |-> txt]

VerseTexts ==
    { VerseText("KJV", <<"G","e","n">>, 1, 1, <<"a"," ","B">>),
      VerseText("KJV", <<"G","e","n">>, 1, 2, <<"t","h","e"," ","a","b">>),
      VerseText("KJV", <<"G","e","n">>, 1, 3, <<"B",","," ","a">>),
      VerseText("KJV", <<"J","h","n">>, 1, 1, <<"a","b">>),
      VerseText("ASV", <<"G","e","n">>, 1, 1, <<"a"," ","b">>),
      VerseText("ASV", <<"G","e","n">>, 1, 3, <<"B">>),
      VerseText("ASV", <<"J","h","n">>, 1, 1, <<"a">>),
      VerseText("WEB", <<"G","e","n">>, 1, 1, <<"a">>) }

UnregisteredVerseTexts ==
    { VerseText("KJV", <<"E","n","o">>, 1, 1, <<"a"," ","B">>),
      VerseText("ASV", <<"E","n","o">>, 1, 1, <<"a">>) }

\* the store whose books are those of the registry, and the store that got
\* one more book after the registry was loaded
Databases ==
    { [books |-> BookRows, verse_texts |-> VerseTexts],
      [books |-> Append(BookRows, UnregisteredBook),
       verse_texts |-> VerseTexts \cup UnregisteredVerseTexts] }

\* the engine right after construction, with no call made yet
InitEngine ==
    /\ book_rows = BookRows
    /\ translations = load_translations(TranslationRows)
    /\ database = [books |-> BookRows, verse_texts |-> VerseTexts]
    /\ failing = {}
    /\ enabled_translations = <<>>
    /\ unique_verses = FALSE
    /\ abbreviate_results = FALSE
    /\ reading = None
    /\ canonical_book = None
    /\ results = None
    /\ connections = 0

-----------------------------------------------------------------------------
(* Inputs of the compiler                                                  *)

MaxTerms == 4

CompileTokens ==
    { <<"a">>, <<"a","*">>, <<"!","b">>, <<"\"","a"," ","b","\"">>,
      <<"A","N","D">>, <<"o","r">> }

TokenLists(tokens, n) == UNION {[1..k -> tokens] : k \in 0..n}

LoveAndNotHate ==
    <<"l","o","v","e"," ","A","N","D"," ","!","h","a","t","e">>

CompileQueries ==
    LET plain == {Join(ts, <<" ">>) : ts \in TokenLists(CompileTokens, MaxTerms)}
    IN  plain \cup {<<"!">> \o s : s \in plain}
              \cup {<<"!", " ">> \o s : s \in plain}
              \cup {LoveAndNotHate}

InitCompile ==
    /\ pc = "start"
    /\ query \in CompileQueries
    /\ case_sensitive \in BOOLEAN
    /\ text = <<>>
    /\ compiled = None
    /\ highlighted = None
    /\ search_type = None
    /\ verse_ref = None
    /\ InitEngine

Compile ==
    /\ pc = "start"
    /\ pc' = "compiled"
    /\ compiled' = build_word_search_query(query, case_sensitive)
    /\ UNCHANGED <<queryVars, storeVars, searchVars, highlighted,
                   search_type, verse_ref, canonical_book, results,
                   connections>>

NextCompile == Compile

SpecCompile == InitCompile /\ [][NextCompile]_vars


-----------------------------------------------------------------------------
(* Properties of the Word Query Compiler                                   *)

\* indexes, within parts, of the parts that become conditions
RECURSIVE TermPositions(_, _)
TermPositions(parts, i) ==
    IF i > Len(parts) THEN <<>>
    ELSE (IF IsOperator(parts[i]) THEN <<>> ELSE <<i>>)
         \o TermPositions(parts, i + 1)

\* the conditions that appear in the predicate, left to right
RECURSIVE ClauseConditions(_)
ClauseConditions(clause) ==
    IF clause = <<>> THEN <<>>
    ELSE (IF Head(clause).kind = "cond" THEN <<Head(clause)>> ELSE <<>>)
         \o ClauseConditions(Tail(clause))

AndOp == <<"A","N","D">>

\* C4: whenever compile returns, the predicate holds every condition, in
\* order, and two adjacent conditions with no AND/OR token between them in
\* the query are joined by AND, whatever other joiners the query has.
C4_ImplicitAnd ==
    (pc = "compiled" /\ ~compiled.raised) =>
        LET pos == TermPositions(compiled.parts, 1)
            n == Len(compiled.sql_conditions)
            clause == compiled.where_clause
        IN  /\ Len(clause) = (IF n = 0 THEN 0 ELSE 2 * n - 1)
            /\ \A i \in 1..n : clause[2 * i - 1] = compiled.sql_conditions[i]
            /\ \A i \in 1..(n - 1) :
                   pos[i + 1] = pos[i] + 1 => clause[2 * i] = Joiner(AndOp)

\* C5: whenever compile returns, the predicate has one condition per bound
\* parameter, and the i-th parameter is the pattern of the i-th condition of
\* the predicate.
C5_OnePlaceholderPerParameter ==
    (pc = "compiled" /\ ~compiled.raised) =>
        LET conds == ClauseConditions(compiled.where_clause)
        IN  /\ Len(conds) = Len(compiled.search_terms)
            /\ \A i \in 1..Len(conds) :
                   conds[i].pattern = compiled.search_terms[i]

\* C6: every condition compile builds, and every condition of the predicate
\* it returns, is negated exactly when the query starts with `!`; this
\* includes the conditions that follow an explicit AND/OR.
C6_GlobalNegation ==
    pc = "compiled" =>
        /\ \A i \in 1..Len(compiled.sql_conditions) :
               compiled.sql_conditions[i].negated = StartsWith(query, "!")
        /\ \A i \in 1..Len(compiled.where_clause) :
               compiled.where_clause[i].kind = "cond" =>
                   compiled.where_clause[i].negated = StartsWith(query, "!")

\* a query that starts with `!` and whose predicate has a condition after an
\* explicit joiner has been compiled
C6_Witness ==
    /\ pc = "compiled"
    /\ StartsWith(query, "!")
    /\ ~compiled.raised
    /\ Len(compiled.where_clause) >= 3
    /\ \E i \in 1..Len(compiled.parts) : IsOperator(compiled.parts[i])
    /\ compiled.where_clause[3].negated

\* C7 as stated: `love AND !hate` compiles to a positive condition for
\* `love` AND a negated condition for `hate`.
C7_Original ==
    (pc = "compiled" /\ query = LoveAndNotHate /\ ~case_sensitive) =>
        /\ ~compiled.raised
        /\ Len(compiled.where_clause) = 3
        /\ compiled.where_clause[2] = Joiner(AndOp)
        /\ compiled.where_clause[1].pattern = <<"%","l","o","v","e","%">>
        /\ ~compiled.where_clause[1].negated
        /\ compiled.where_clause[3].pattern = <<"%","h","a","t","e","%">>
        /\ compiled.where_clause[3].negated

\* C7 amended: `love AND !hate` (case-insensitive) compiles to two positive
\* conditions joined by AND, with the patterns %love% and %!hate%: the `!`
\* inside the query is kept as a literal character of the second pattern.
C7_Amended ==
    (pc = "compiled" /\ query = LoveAndNotHate /\ ~case_sensitive) =>
        /\ ~compiled.raised
        /\ Len(compiled.where_clause) = 3
        /\ compiled.where_clause[2] = Joiner(AndOp)
        /\ compiled.where_clause[1].pattern = <<"%","l","o","v","e","%">>
        /\ ~compiled.where_clause[1].negated
        /\ ~compiled.where_clause[1].case_sensitive
        /\ compiled.where_clause[3].pattern = <<"%","!","h","a","t","e","%">>
        /\ ~compiled.where_clause[3].negated
        /\ ~compiled.where_clause[3].case_sensitive
        /\ compiled.search_terms =
               << <<"%","l","o","v","e","%">>, <<"%","!","h","a","t","e","%">> >>

C7_Witness ==
    /\ pc = "compiled"
    /\ query = LoveAndNotHate
    /\ ~case_sensitive
    /\ Len(compiled.sql_conditions) = 2


-----------------------------------------------------------------------------
(* Query Classifier: the two reference patterns                            *)

InClass(cls, c) ==
    CASE cls = "alpha" -> IsAlpha(c)
      [] cls = "digit" -> IsDigit(c)
      [] cls = "space" -> IsSpace(c)
      [] cls = "word" -> IsWord(c)

\* end offset of the longest run of characters of class cls from offset p
RECURSIVE SkipClass(_, _, _)
SkipClass(cls, s, p) ==
    IF p < Len(s) /\ InClass(cls, s[p + 1]) THEN SkipClass(cls, s, p + 1)
    ELSE p

\* `$`: the end of the string, or just before a final newline
AtEnd(s, p) == p = Len(s) \/ (p = Len(s) - 1 /\ s[Len(s)] = "\n")

NoMatch == [ok |-> FALSE]

\* the tail  \s*(\d+):(\d+)(?:-(\d+))?$  of both patterns, tried from offset
\* p1 after the book group s[0:p1].  The character classes that follow one
\* another are disjoint, so the longest run is the only one that can match.
MatchCoordinates(s, p1) ==
    LET p2 == SkipClass("space", s, p1)
        p3 == SkipClass("digit", s, p2)
        p4 == p3 + 1
        p5 == SkipClass("digit", s, p4)
        p6 == SkipClass("digit", s, p5 + 1)
    IN  IF ~(p3 > p2 /\ p3 < Len(s) /\ s[p3 + 1] = ":" /\ p5 > p4)
        THEN NoMatch
        ELSE IF p5 < Len(s) /\ s[p5 + 1] = "-" /\ p6 > p5 + 1 /\ AtEnd(s, p6)
        THEN [ok |-> TRUE, book_part |-> Slice(s, 0, p1),
              chapter |-> Slice(s, p2, p3), start_verse |-> Slice(s, p4, p5),
              end_verse |-> Slice(s, p5 + 1, p6)]
        ELSE IF AtEnd(s, p5)
        THEN [ok |-> TRUE, book_part |-> Slice(s, 0, p1),
              chapter |-> Slice(s, p2, p3), start_verse |-> Slice(s, p4, p5),
              end_verse |-> <<>>]
        ELSE NoMatch

\* re.match(r'^([a-zA-Z]+)\s*(\d+):(\d+)(?:-(\d+))?$', s)
MatchPattern1(s) ==
    LET p1 == SkipClass("alpha", s, 0)
    IN  IF p1 > 0 THEN MatchCoordinates(s, p1) ELSE NoMatch

\* re.match(r'^(\d+\s*[a-zA-Z]+)\s*(\d+):(\d+)(?:-(\d+))?$', s)
MatchPattern2(s) ==
    LET d == SkipClass("digit", s, 0)
        sp == SkipClass("space", s, d)
        p1 == SkipClass("alpha", s, sp)
    IN  IF d > 0 /\ p1 > sp THEN MatchCoordinates(s, p1) ELSE NoMatch

\* detect_search_type that matches the query as given, without query.strip()
detect_search_type_NoStrip(q) ==
    IF MatchPattern1(q).ok THEN "verse_reference"
    ELSE IF MatchPattern2(q).ok THEN "verse_reference"
    ELSE "word_search"

detect_search_type(q) ==
    LET s == Strip(q)
    IN  IF MatchPattern1(s).ok THEN "verse_reference"
        ELSE IF MatchPattern2(s).ok THEN "verse_reference"
        ELSE "word_search"

-----------------------------------------------------------------------------
(* Inputs of the classifier                                                *)

MaxClassifyLen == 6

ClassifyAlphabet == {"a", "B", "1", " ", ":", "-"}

ClassifyQueries == UNION {[1..n -> ClassifyAlphabet] : n \in 0..MaxClassifyLen}

InitClassify ==
    /\ pc = "start"
    /\ query \in ClassifyQueries
    /\ case_sensitive = FALSE
    /\ text = <<>>
    /\ compiled = None
    /\ highlighted = None
    /\ search_type = None
    /\ verse_ref = None
    /\ InitEngine

Classify ==
    /\ pc = "start"
    /\ pc' = "classified"
    /\ search_type' = detect_search_type(query)
    /\ UNCHANGED <<queryVars, storeVars, searchVars, compiled,
                   highlighted, verse_ref, canonical_book, results,
                   connections>>

NextClassify == Classify

SpecClassify == InitClassify /\ [][NextClassify]_vars

-----------------------------------------------------------------------------
(* Properties of the Query Classifier                                      *)

AllInClass(cls, s, a, b) == \A i \in (a + 1)..b : InClass(cls, s[i])

\* s[p:] is  <chapter>:<verse>  or  <chapter>:<verse>-<end_verse>,  each
\* number a non-empty run of digits
CoordinateShape(s, p) ==
    \E c \in (p + 1)..(Len(s) - 2) :
        /\ AllInClass("digit", s, p, c)
        /\ s[c + 1] = ":"
        /\ \/ AllInClass("digit", s, c + 1, Len(s))
           \/ \E d \in (c + 2)..(Len(s) - 2) :
                  /\ AllInClass("digit", s, c + 1, d)
                  /\ s[d + 1] = "-"
                  /\ AllInClass("digit", s, d + 1, Len(s))

\* <letters><chapter>:<verse>[-<end_verse>], with optional white space
\* between the letters and the chapter
ReferenceShape1(s) ==
    \E a \in 1..Len(s) :
        /\ AllInClass("alpha", s, 0, a)
        /\ \E b \in a..Len(s) :
               AllInClass("space", s, a, b) /\ CoordinateShape(s, b)

\* <digit><spacer><letters><chapter>:<verse>[-<end_verse>]: a numeric prefix
\* of one or more digits, optional white space, then the first shape
ReferenceShape2(s) ==
    \E z \in 1..Len(s) :
        /\ AllInClass("digit", s, 0, z)
        /\ \E y \in z..Len(s) :
               /\ AllInClass("space", s, z, y)
               /\ \E a \in (y + 1)..Len(s) :
                      /\ AllInClass("alpha", s, y, a)
                      /\ \E b \in a..Len(s) :
                             /\ AllInClass("space", s, a, b)
                             /\ CoordinateShape(s, b)

\* the query with its leading and trailing white space removed, as the
\* longest slice that neither starts nor ends with white space
Trimmed(q) ==
    IF \A i \in 1..Len(q) : IsSpace(q[i]) THEN <<>>
    ELSE LET first == CHOOSE i \in 1..Len(q) :
                          ~IsSpace(q[i]) /\ \A j \in 1..(i - 1) : IsSpace(q[j])
             last == CHOOSE i \in 1..Len(q) :
                          ~IsSpace(q[i]) /\ \A j \in (i + 1)..Len(q) : IsSpace(q[j])
         IN  SubSeq(q, first, last)

-----------------------------------------------------------------------------
(* Book Registry                                                           *)

\* d[key] = value on a dict kept as the sequence of its items in insertion
\* order: an existing key keeps its place
DictSet(d, key, value) ==
    IF \E i \in 1..Len(d) : d[i].key = key
    THEN [i \in 1..Len(d) |->
             IF d[i].key = key THEN [key |-> key, value |-> value] ELSE d[i]]
    ELSE Append(d, [key |-> key, value |-> value])

DictHas(d, key) == \E i \in 1..Len(d) : d[i].key = key
DictGet(d, key) == d[CHOOSE i \in 1..Len(d) : d[i].key = key].value

\* name.replace(' ', '')
RECURSIVE RemoveSpaces(_)
RemoveSpaces(s) ==
    IF s = <<>> THEN <<>>
    ELSE (IF Head(s) = " " THEN <<>> ELSE <<Head(s)>>) \o RemoveSpaces(Tail(s))

\* only the names that start with `1 ` get a compact key
IsNumberedName_OnlyOne(name) ==
    Len(name) >= 2 /\ name[1] = "1" /\ name[2] = " "

IsNumberedName(name) ==
    Len(name) >= 2 /\ name[1] \in {"1", "2", "3"} /\ name[2] = " "

\* self.book_abbreviations after load_books has read rows
RECURSIVE load_books(_, _)
load_books(rows, book_abbreviations) ==
    IF rows = <<>> THEN book_abbreviations
    ELSE LET row == Head(rows)
             d1 == DictSet(book_abbreviations, Lower(row.abbrev), row.name)
             d2 == IF IsNumberedName(row.name)
                   THEN DictSet(d1, Lower(RemoveSpaces(row.name)), row.name)
                   ELSE d1
         IN  load_books(Tail(rows), d2)

book_abbreviations == load_books(book_rows, <<>>)

\* self.book_order after load_books has read rows (lines 77-85)
RECURSIVE load_book_order(_, _)
load_book_order(rows, book_order) ==
    IF rows = <<>> THEN book_order
    ELSE load_book_order(Tail(rows),
            IF IsNumberedName(Head(rows).name)
            THEN DictSet(DictSet(DictSet(book_order, Head(rows).name,
                                         Head(rows).order_index),
                                 Head(rows).abbrev, Head(rows).order_index),
                         Lower(RemoveSpaces(Head(rows).name)),
                         Head(rows).order_index)
            ELSE DictSet(DictSet(book_order, Head(rows).name,
                                 Head(rows).order_index),
                         Head(rows).abbrev, Head(rows).order_index))

\* d.get(key, default)
DictGetOr(d, key, default) == IF DictHas(d, key) THEN DictGet(d, key) ELSE default

\* needle in haystack
Contains(haystack, needle) ==
    \E p \in 0..(Len(haystack) - Len(needle)) :
        Slice(haystack, p, p + Len(needle)) = needle

\* end offset of the run of characters `.` matches from offset p
RECURSIVE SkipDot(_, _)
SkipDot(s, p) == IF p < Len(s) /\ s[p + 1] # "\n" THEN SkipDot(s, p + 1) ELSE p

\* re.match(r'(\d+)\s*(.+)', s): the groups of the first match in
\* backtracking order
MatchNumbered(s) ==
    LET d == SkipClass("digit", s, 0)
        sp == SkipClass("space", s, d)
        e == SkipDot(s, sp)
    IN  IF d = 0 THEN NoMatch
        ELSE IF e > sp
        THEN [ok |-> TRUE, number |-> Slice(s, 0, d), book_part |-> Slice(s, sp, e)]
        ELSE IF sp > d /\ s[sp] # "\n"
        THEN \* \s* gives back its last character to .+
             [ok |-> TRUE, number |-> Slice(s, 0, d),
              book_part |-> Slice(s, sp - 1, SkipDot(s, sp - 1))]
        ELSE IF sp = d /\ d >= 2
        THEN \* \d+ gives back its last digit to .+
             [ok |-> TRUE, number |-> Slice(s, 0, d - 1),
              book_part |-> Slice(s, d - 1, SkipDot(s, d - 1))]
        ELSE NoMatch

\* the first full name of the dict, in item order, that contains book_input
RECURSIVE PartialMatch(_, _, _)
PartialMatch(d, book_input, i) ==
    IF i > Len(d) THEN None
    ELSE LET full == Lower(d[i].value)
         IN  IF Contains(full, book_input)
                \/ Slice(full, 0, Len(book_input)) = book_input
             THEN d[i].value
             ELSE PartialMatch(d, book_input, i + 1)

normalize_book_name(book_input0) ==
    LET book_input == Strip(Lower(book_input0))
        m == MatchNumbered(book_input)
        compact_form == IF m.ok THEN m.number \o RemoveSpaces(m.book_part)
                        ELSE <<>>
    IN  IF m.ok /\ DictHas(book_abbreviations, compact_form)
        THEN DictGet(book_abbreviations, compact_form)
        ELSE IF DictHas(book_abbreviations, book_input)
        THEN DictGet(book_abbreviations, book_input)
        ELSE PartialMatch(book_abbreviations, book_input, 1)

-----------------------------------------------------------------------------
(* Inputs of the registry                                                  *)

MaxBooks == 2

\* books a books table may hold, as (name, abbreviation)
BookPool ==
    { << <<"G","e","n","e","s","i","s">>, <<"G","e","n">> >>, << <<"1"," ","S","a","m","u","e","l">>, <<"1","S","a">> >>,
      << <<"J","o","h","n">>, <<"J","h","n">> >>, << <<"1"," ","J","o","h","n">>, <<"1","J","n">> >>,
      << <<"2"," ","J","o","h","n">>, <<"2"," ","J","n">> >> }

\* the rows of a books table that holds the given books in canonical order
TableRows(books) ==
    [i \in 1..Len(books) |->
        [name |-> books[i][1], abbrev |-> books[i][2], order_index |-> i]]

Registries ==
    {BookRows} \cup
    { TableRows(books) :
        books \in { b \in UNION {[1..n -> BookPool] : n \in 1..MaxBooks} :
                      \A i, j \in 1..Len(b) : i # j => b[i] # b[j] } }

CaseForms(s) == {s, Lower(s), Upper(s)}

BookInputs ==
    UNION { CaseForms(b[1]) \cup CaseForms(b[2])
            \cup CaseForms(RemoveSpaces(b[1])) : b \in BookPool }
    \cup { <<"s","a","m">>, <<"J","o">>, <<"X","y","z">>, <<" ","j","o","h","n"," ">>, <<"1"," "," ","S","a","m","u","e","l">> }

InitCanonicalize ==
    /\ pc = "start"
    /\ query \in BookInputs
    /\ text = <<>>
    /\ case_sensitive = FALSE
    /\ compiled = None
    /\ highlighted = None
    /\ search_type = None
    /\ verse_ref = None
    /\ book_rows \in Registries
    /\ translations = load_translations(TranslationRows)
    /\ database = [books |-> book_rows, verse_texts |-> {}]
    /\ failing = {}
    /\ enabled_translations = <<>>
    /\ unique_verses = FALSE
    /\ abbreviate_results = FALSE
    /\ reading = None
    /\ canonical_book = None
    /\ results = None
    /\ connections = 0

Canonicalize ==
    /\ pc = "start"
    /\ pc' = "canonicalized"
    /\ canonical_book' = normalize_book_name(query)
    /\ UNCHANGED <<queryVars, storeVars, searchVars, compiled, highlighted,
                   search_type, verse_ref, results, connections>>

NextCanonicalize == Canonicalize

SpecCanonicalize == InitCanonicalize /\ [][NextCanonicalize]_vars

-----------------------------------------------------------------------------
(* Properties of the Book Registry                                         *)

RegisteredBooks == {book_rows[i] : i \in 1..Len(book_rows)}

\* canonicalize returned the book of this name
Returned(name) == canonical_book # None /\ canonical_book = name

\* C13: the exact full name of a registered book, in any letter case,
\* canonicalizes to that book, whatever the registry and the order of its
\* books.
C13_ExactFullName ==
    pc = "canonicalized" =>
        \A r \in RegisteredBooks :
            Lower(query) = Lower(r.name) => Returned(r.name)

\* a numbered book: its name is 1, 2 or 3, a space, and the rest
NumberedBook(r) ==
    Len(r.name) >= 2 /\ r.name[1] \in {"1", "2", "3"} /\ r.name[2] = " "

\* C14: the abbreviation, the spaced full name and the compact form of a
\* numbered book of the registry, in any letter case, all canonicalize to
\* the name of that book.
C14_NumberedForms ==
    pc = "canonicalized" =>
        \A r \in RegisteredBooks :
            (NumberedBook(r)
             /\ Lower(query) \in {Lower(r.abbrev), Lower(r.name),
                                  Lower(RemoveSpaces(r.name))})
                => Returned(r.name)

\* the compact form of a numbered book whose number is not 1 was
\* canonicalized
C14_Witness ==
    /\ pc = "canonicalized"
    /\ query = <<"2","J","O","H","N">>
    /\ Returned(<<"2"," ","J","o","h","n">>)

-----------------------------------------------------------------------------
(* Reference Parser                                                        *)

DigitValue(c) == (CHOOSE i \in 1..10 : Digits[i] = c) - 1

\* int(s) for a non-empty run of decimal digits
RECURSIVE ParseInt(_)
ParseInt(s) ==
    IF s = <<>> THEN 0
    ELSE 10 * ParseInt(SubSeq(s, 1, Len(s) - 1)) + DigitValue(s[Len(s)])

\* the dict with an end_verse that defaults to the chapter
VerseRange_EndFromChapter(book, m) ==
    [book |-> book,
     chapter |-> ParseInt(m.chapter),
     start_verse |-> ParseInt(m.start_verse),
     end_verse |-> IF m.end_verse # <<>> THEN ParseInt(m.end_verse)
                   ELSE ParseInt(m.chapter)]

\* the dict returned for a match whose book canonicalizes
VerseRange(book, m) ==
    [book |-> book,
     chapter |-> ParseInt(m.chapter),
     start_verse |-> ParseInt(m.start_verse),
     end_verse |-> IF m.end_verse # <<>> THEN ParseInt(m.end_verse)
                   ELSE ParseInt(m.start_verse)]

\* `if book:` - the book is neither None nor the empty string
Truthy(book) == book # None /\ book # <<>>

\* a parse that keeps the book token as written when it does not
\* canonicalize
parse_verse_reference_KeepToken(q) ==
    LET s == Strip(q)
        m1 == MatchPattern1(s)
        book1 == IF m1.ok THEN normalize_book_name(m1.book_part) ELSE None
        m2 == MatchPattern2(s)
        book2 == IF m2.ok THEN normalize_book_name(m2.book_part) ELSE None
    IN  IF m1.ok
        THEN VerseRange(IF Truthy(book1) THEN book1 ELSE m1.book_part, m1)
        ELSE IF m2.ok
        THEN VerseRange(IF Truthy(book2) THEN book2 ELSE m2.book_part, m2)
        ELSE None

parse_verse_reference(q) ==
    LET s == Strip(q)
        m1 == MatchPattern1(s)
        book1 == IF m1.ok THEN normalize_book_name(m1.book_part) ELSE None
        m2 == MatchPattern2(s)
        book2 == IF m2.ok THEN normalize_book_name(m2.book_part) ELSE None
    IN  IF m1.ok /\ Truthy(book1) THEN VerseRange(book1, m1)
        ELSE IF m2.ok /\ Truthy(book2) THEN VerseRange(book2, m2)
        ELSE None

-----------------------------------------------------------------------------
(* Inputs of the parser                                                    *)

MaxVerse == 3

\* the decimal numerals of 0..n, and one with a leading zero
RECURSIVE Numeral(_)
Numeral(n) ==
    IF n < 10 THEN <<Digits[n + 1]>>
    ELSE Numeral(n \div 10) \o <<Digits[(n % 10) + 1]>>

VerseNumerals == {Numeral(n) : n \in 0..MaxVerse} \cup {<<"0","4">>, <<"1","3">>}

BookTokens ==
    { <<"G","e","n">>, <<"g","e","n","e","s","i","s">>, <<"G","E","N">>,
      <<"1"," ","C","o","r">>, <<"1","S","a">>,
      <<"1","s","a","m","u","e","l">>,
      <<"j","o","h","n">>, <<"X","y","z">>, <<"2"," ","X","y","z">> }

OneCor13 == <<"1"," ","C","o","r"," ","1","3",":","4","-","8">>

ParseQueries ==
    LET withEnd ==
            {b \o sep \o c \o <<":">> \o v \o <<"-">> \o e :
                b \in BookTokens, sep \in {<<>>, <<" ">>},
                c \in {<<"1">>, <<"1","3">>}, v \in VerseNumerals, e \in VerseNumerals}
        noEnd ==
            {b \o sep \o c \o <<":">> \o v :
                b \in BookTokens, sep \in {<<>>, <<" ">>},
                c \in {<<"1">>, <<"1","3">>}, v \in VerseNumerals}
        malformed ==
            {b \o <<" ">> \o c \o <<":">> : b \in BookTokens, c \in {<<"1">>, <<"1","3">>}}
            \cup {b \o <<" ">> \o c : b \in BookTokens, c \in {<<"1">>, <<"1","3">>}}
    IN  withEnd \cup noEnd \cup malformed
        \cup {<<" ">> \o s \o <<" ">> : s \in noEnd}
        \cup {OneCor13}

InitParse ==
    /\ pc = "start"
    /\ query \in ParseQueries
    /\ case_sensitive = FALSE
    /\ text = <<>>
    /\ compiled = None
    /\ highlighted = None
    /\ search_type = None
    /\ verse_ref = None
    /\ InitEngine

Parse ==
    /\ pc = "start"
    /\ pc' = "parsed"
    /\ verse_ref' = parse_verse_reference(query)
    /\ UNCHANGED <<queryVars, storeVars, searchVars, compiled,
                   highlighted, search_type, canonical_book, results,
                   connections>>

NextParse == Parse

SpecParse == InitParse /\ [][NextParse]_vars

-----------------------------------------------------------------------------
(* Properties of the Reference Parser                                      *)

\* C10: every VerseRange parse returns has start_verse <= end_verse, also
\* for a query that writes an end verse smaller than the start verse.
C10_StartNotAfterEnd ==
    (pc = "parsed" /\ verse_ref # None) =>
        verse_ref.start_verse <= verse_ref.end_verse


\* the book token of a query of reference shape: the letters, or the
\* digits, optional whitespace and letters, before the chapter
BookToken(q) ==
    LET s == Strip(q)
        n == SkipClass("space", s, SkipClass("digit", s, 0))
        e == SkipClass("alpha", s, n)
    IN  IF ReferenceShape1(s) \/ ReferenceShape2(s) THEN Slice(s, 0, e)
        ELSE None

CanonicalNames == {book_rows[i].name : i \in 1..Len(book_rows)}

\* C11: a query of reference shape whose book token does not canonicalize
\* parses to no VerseRange although its chapter and verses are well-formed,
\* a query that has no reference shape parses to none either, and the book
\* of every VerseRange returned is a canonical name of the registry.
C11_UnresolvedBookFails ==
    pc = "parsed" =>
        /\ BookToken(query) = None => verse_ref = None
        /\ (BookToken(query) # None
            /\ normalize_book_name(BookToken(query)) = None)
               => verse_ref = None
        /\ verse_ref # None => verse_ref.book \in CanonicalNames

\* a well-formed reference with an unknown book was parsed, to nothing
C11_Witness ==
    /\ pc = "parsed"
    /\ BookToken(query) # None
    /\ normalize_book_name(BookToken(query)) = None
    /\ verse_ref = None

\* the digits written before the `:`, after it, and after the `-`
RECURSIVE DigitsBefore(_, _)
DigitsBefore(s, p) ==
    IF p > 0 /\ IsDigit(s[p]) THEN DigitsBefore(s, p - 1) ELSE p

IndexOf(s, c) == CHOOSE i \in 1..Len(s) : s[i] = c /\ \A j \in 1..(i - 1) : s[j] # c

HasDash(s) == \E i \in 1..Len(s) : s[i] = "-"

WrittenChapter(s) ==
    Slice(s, DigitsBefore(s, IndexOf(s, ":") - 1), IndexOf(s, ":") - 1)

WrittenStart(s) ==
    Slice(s, IndexOf(s, ":"), SkipClass("digit", s, IndexOf(s, ":")))

WrittenEnd(s) ==
    IF HasDash(s) THEN Slice(s, IndexOf(s, "-"), Len(s)) ELSE WrittenStart(s)

\* the number a decimal numeral denotes: the n whose numeral it is once
\* its leading zeros are gone
RECURSIVE StripZeros(_)
StripZeros(s) ==
    IF Len(s) > 1 /\ Head(s) = "0" THEN StripZeros(Tail(s)) ELSE s

MaxWritten == 99

Denotes(s) == CHOOSE n \in 0..MaxWritten : Numeral(n) = StripZeros(s)

\* C12: the chapter, start_verse and end_verse of a VerseRange are the
\* numbers the numerals of the query denote in base 10, end_verse being
\* start_verse when the query has no `-<end>` part; `1 Cor 13:4-8` parses to
\* 1 Corinthians, chapter 13, verses 4 to 8.
C12_BaseTenValues ==
    (pc = "parsed" /\ verse_ref # None) =>
        /\ verse_ref.chapter = Denotes(WrittenChapter(Strip(query)))
        /\ verse_ref.start_verse = Denotes(WrittenStart(Strip(query)))
        /\ verse_ref.end_verse = Denotes(WrittenEnd(Strip(query)))
        /\ query = OneCor13 =>
               verse_ref = [book |-> <<"1"," ","C","o","r","i","n","t","h","i","a","n","s">>, chapter |-> 13,
                            start_verse |-> 4, end_verse |-> 8]

\* `1 Cor 13:4-8` was parsed
C12_Witness ==
    /\ pc = "parsed"
    /\ verse_ref # None
    /\ query = OneCor13
    /\ verse_ref.end_verse = 8


-----------------------------------------------------------------------------
(* The regular expressions of the highlighter                              *)
(*                                                                         *)
(* A pattern is a sequence of elements; MatchFrom follows the order in     *)
(* which the backtracking matcher of the re module tries the alternatives, *)
(* so the match it returns is the one re returns.                          *)

Lit(c) == [k |-> "lit", c |-> c]      \* re.escape(c)
AnyChar == [k |-> "any", c |-> ""]    \* .
LazyStar == [k |-> "lazy", c |-> ""]  \* .*?
WordB == [k |-> "wb", c |-> ""]       \* \b
WordStar == [k |-> "wstar", c |-> ""] \* \w*
Word2 == [k |-> "w2", c |-> ""]       \* \w{2,}
OptTS == [k |-> "optTS", c |-> ""]    \* (?:'[ts])?
NonWordAhead == [k |-> "la", c |-> ""] \* (?=\W|$)

\* re.escape(s) as a pattern
Escape(s) == [i \in 1..Len(s) |-> Lit(s[i])]

CharEq(a, b, ic) == IF ic THEN LowerChar(a) = LowerChar(b) ELSE a = b

\* \b at offset p of s
Boundary(s, p) ==
    (p > 0 /\ IsWord(s[p])) # (p < Len(s) /\ IsWord(s[p + 1]))

\* End offset of the match of re[i..] at offset pos of s, or -1.  ic is
\* re.IGNORECASE; noEmptyAt is the offset at which an empty match is refused
\* (the scanner's must_advance), or -1.
RECURSIVE MatchFrom(_, _, _, _, _, _)
RECURSIVE GreedyDown(_, _, _, _, _, _, _)
MatchFrom(re, i, s, pos, ic, noEmptyAt) ==
    IF i > Len(re) THEN (IF pos = noEmptyAt THEN -1 ELSE pos)
    ELSE LET el == re[i]
             next(p) == MatchFrom(re, i + 1, s, p, ic, noEmptyAt)
         IN  CASE el.k = "lit" ->
                    IF pos < Len(s) /\ CharEq(s[pos + 1], el.c, ic)
                    THEN next(pos + 1) ELSE -1
               [] el.k = "any" ->
                    IF pos < Len(s) /\ s[pos + 1] # "\n"
                    THEN next(pos + 1) ELSE -1
               [] el.k = "lazy" ->
                    LET r == next(pos)
                    IN  IF r # -1 THEN r
                        ELSE IF pos < Len(s) /\ s[pos + 1] # "\n"
                        THEN MatchFrom(re, i, s, pos + 1, ic, noEmptyAt)
                        ELSE -1
               [] el.k = "wb" ->
                    IF Boundary(s, pos) THEN next(pos) ELSE -1
               [] el.k = "wstar" ->
                    GreedyDown(re, i, s, pos, SkipClass("word", s, pos), ic,
                               noEmptyAt)
               [] el.k = "w2" ->
                    GreedyDown(re, i, s, pos + 2, SkipClass("word", s, pos), ic,
                               noEmptyAt)
               [] el.k = "optTS" ->
                    LET r == IF pos + 1 < Len(s) /\ s[pos + 1] = "'"
                                /\ s[pos + 2] \in {"t", "s"}
                             THEN next(pos + 2) ELSE -1
                    IN  IF r # -1 THEN r ELSE next(pos)
               [] el.k = "la" ->
                    IF pos = Len(s) \/ ~IsWord(s[pos + 1]) THEN next(pos) ELSE -1

\* a greedy repetition that ends at e at most and lo at least
GreedyDown(re, i, s, lo, e, ic, noEmptyAt) ==
    IF e < lo THEN -1
    ELSE LET r == MatchFrom(re, i + 1, s, e, ic, noEmptyAt)
         IN  IF r # -1 THEN r
             ELSE GreedyDown(re, i, s, lo, e - 1, ic, noEmptyAt)

\* re.search from offset st on: the leftmost match; an empty match at pos
\* itself is refused when must_advance is set
RECURSIVE Search(_, _, _, _, _, _)
RECURSIVE SearchAt(_, _, _, _, _, _, _)
Search(re, s, st, pos, must_advance, ic) ==
    IF st > Len(s) THEN NoMatch
    ELSE SearchAt(re, s, st, pos, must_advance, ic,
                  MatchFrom(re, 1, s, st, ic,
                            IF must_advance /\ st = pos THEN st ELSE -1))

\* e is the outcome of the attempt at offset st
SearchAt(re, s, st, pos, must_advance, ic, e) ==
    IF e # -1 THEN [ok |-> TRUE, start |-> st, end |-> e]
    ELSE Search(re, s, st + 1, pos, must_advance, ic)

\* re.finditer: the scanner resumes at the end of the previous match and
\* must advance after an empty one
RECURSIVE FindIterFrom(_, _, _, _, _)
RECURSIVE FindIterNext(_, _, _, _)
FindIterFrom(re, s, pos, must_advance, ic) ==
    FindIterNext(re, s, ic, Search(re, s, pos, pos, must_advance, ic))

\* m is the match the scanner found, if any
FindIterNext(re, s, ic, m) ==
    IF ~m.ok THEN <<>>
    ELSE <<m>> \o FindIterFrom(re, s, m.end, m.end = m.start, ic)

FindIter(re, s, ic) == FindIterFrom(re, s, 0, FALSE, ic)

\* the (start, end, match.group(0)) tuples of the matches ms in s
SpanTuples(s, ms) ==
    [j \in 1..Len(ms) |->
        [start |-> ms[j].start, end |-> ms[j].end,
         matched_text |-> Slice(s, ms[j].start, ms[j].end)]]

GroupSpans(re, s, ic) == SpanTuples(s, FindIter(re, s, ic))

-----------------------------------------------------------------------------
(* Highlighter                                                             *)

HasChar(s, c) == \E i \in 1..Len(s) : s[i] = c

\* term.upper() in ['AND', 'OR', '!']
IsSkippedTerm(term) == Upper(term) \in {<<"A","N","D">>, <<"O","R">>, <<"!">>}

\* term.strip('"')
RECURSIVE StripQuotes(_)
StripQuotes(s) ==
    IF s # <<>> /\ s[1] = "\"" THEN StripQuotes(Tail(s))
    ELSE IF s # <<>> /\ s[Len(s)] = "\"" THEN StripQuotes(SubSeq(s, 1, Len(s) - 1))
    ELSE s

\* a translation of `*` that runs on to the end of the word
wildcard_pattern_WordStar(term) ==
    [i \in 1..Len(term) |->
        IF term[i] = "*" THEN WordStar
        ELSE IF term[i] = "?" THEN AnyChar
        ELSE Lit(term[i])]

\* the wildcard term as a regular expression (lines 286-295)
wildcard_pattern(term) ==
    [i \in 1..Len(term) |->
        IF term[i] = "*" THEN LazyStar
        ELSE IF term[i] = "?" THEN AnyChar
        ELSE Lit(term[i])]

\* match.group(0) of the matches ms in s
MatchTexts(s, ms) == [j \in 1..Len(ms) |-> Slice(s, ms[j].start, ms[j].end)]

\* re.findall(r'\b\w{2,}(?:\'[ts])?\b', matched_text)
words_in_match(matched_text) ==
    MatchTexts(matched_text,
               FindIter(<<WordB, Word2, OptTS, WordB>>, matched_text, FALSE))

\* the loop of lines 310-317 over the words of one wildcard match:
\* remaining_text is fixed, search_pos moves on after every word found
RECURSIVE WordSpans(_, _, _)
RECURSIVE WordSpansAfter(_, _, _, _)
WordSpans(words, remaining_text, search_pos) ==
    IF words = <<>> THEN <<>>
    ELSE WordSpansAfter(words, remaining_text, search_pos,
             Search(<<WordB>> \o Escape(Head(words)) \o <<WordB>>,
                    remaining_text, 0, 0, FALSE, FALSE))

\* word_match is the outcome of re.search for the first of words
WordSpansAfter(words, remaining_text, search_pos, word_match) ==
    IF word_match.ok
    THEN <<[start |-> search_pos + word_match.start,
            end |-> search_pos + word_match.end,
            matched_text |-> Head(words)]>>
         \o WordSpans(Tail(words), remaining_text,
                      search_pos + word_match.end)
    ELSE WordSpans(Tail(words), remaining_text, search_pos)

\* the spans one wildcard match contributes (lines 298-320)
WildcardMatchSpans(term, txt, m) ==
    IF HasChar(term, "?") /\ ~HasChar(term, "*")
    THEN WordSpans(words_in_match(m.matched_text),
                   Slice(txt, m.start, Len(txt)), m.start)
    ELSE <<m>>

RECURSIVE ConcatAll(_)
ConcatAll(lists) ==
    IF lists = <<>> THEN <<>> ELSE Head(lists) \o ConcatAll(Tail(lists))

\* a fallback that takes every occurrence of the term, whatever its length
FallbackSpans_Substring(clean_term, txt) ==
    GroupSpans(Escape(clean_term), txt, TRUE)

\* lines 333-346: the fallback when the term has no whole-word match
FallbackSpans(clean_term, txt) ==
    IF Len(clean_term) <= 2
    THEN GroupSpans(<<WordB>> \o Escape(clean_term) \o <<NonWordAhead>>,
                    txt, TRUE)
    ELSE GroupSpans(<<WordB, WordStar>> \o Escape(clean_term)
                        \o <<WordStar, WordB>>, txt, TRUE)

\* a lookup that adds the fallback spans to the whole-word ones
ExactOrFallback_Both(clean_term, txt, exact_matches) ==
    exact_matches \o FallbackSpans(clean_term, txt)

\* lines 329-346
ExactOrFallback(clean_term, txt, exact_matches) ==
    IF exact_matches # <<>> THEN exact_matches
    ELSE FallbackSpans(clean_term, txt)

\* lines 324-346
CleanTermSpans(clean_term, txt) ==
    IF clean_term = <<>> THEN <<>>
    ELSE ExactOrFallback(clean_term, txt,
             GroupSpans(<<WordB>> \o Escape(clean_term) \o <<WordB>>, txt, TRUE))

\* term.strip('"') that strips a leading `!` as well
StripQuotesAndBang(term) ==
    IF StartsWith(StripQuotes(term), "!") THEN Tail(StripQuotes(term))
    ELSE StripQuotes(term)

\* a plain term looked up without its leading `!`
PlainTermSpans_StripBang(term, txt) ==
    CleanTermSpans(StripQuotesAndBang(term), txt)

\* the spans of a regular term without wildcards (lines 323-346)
PlainTermSpans(term, txt) == CleanTermSpans(StripQuotes(term), txt)

\* the spans of all matches ms of a wildcard term
WildcardSpans(term, txt, ms) ==
    ConcatAll([j \in 1..Len(ms) |-> WildcardMatchSpans(term, txt, ms[j])])

\* the spans of a quoted phrase (lines 269-274)
PhraseSpans(phrase, txt) ==
    IF phrase # <<>> THEN GroupSpans(Escape(phrase), txt, TRUE) ELSE <<>>

\* the tuples one term appends to matches_to_highlight (lines 263-346)
TermSpans(term, txt) ==
    IF IsSkippedTerm(term) THEN <<>>
    ELSE IF IsQuoted(term) THEN PhraseSpans(Slice(term, 1, Len(term) - 1), txt)
    ELSE IF HasChar(term, "*") \/ HasChar(term, "?")
    THEN WildcardSpans(term, txt, GroupSpans(wildcard_pattern(term), txt, TRUE))
    ELSE PlainTermSpans(term, txt)

\* list.sort(key=lambda x: x[0], reverse=True): stable, so tuples with the
\* same start keep the order in which they were appended
\* a sort that puts a tuple before the earlier tuples of the same start
RECURSIVE InsertLaterFirst(_, _)
InsertLaterFirst(sorted, x) ==
    IF sorted = <<>> THEN <<x>>
    ELSE IF Head(sorted).start > x.start
    THEN <<Head(sorted)>> \o InsertLaterFirst(Tail(sorted), x)
    ELSE <<x>> \o sorted

RECURSIVE InsertByStartDesc(_, _)
InsertByStartDesc(sorted, x) ==
    IF sorted = <<>> THEN <<x>>
    ELSE IF Head(sorted).start >= x.start
    THEN <<Head(sorted)>> \o InsertByStartDesc(Tail(sorted), x)
    ELSE <<x>> \o sorted

RECURSIVE SortByStartDesc(_, _)
SortByStartDesc(list, sorted) ==
    IF list = <<>> THEN sorted
    ELSE SortByStartDesc(Tail(list), InsertByStartDesc(sorted, Head(list)))

\* an overlap test that only asks whether x starts inside the existing span
Overlaps_StartInside(x, existing) ==
    x.start >= existing.start /\ x.start < existing.end

\* the test of line 357
Overlaps(x, existing) ==
    ~(x.end <= existing.start \/ x.start >= existing.end)

\* lines 352-362
RECURSIVE FilterOverlaps(_, _)
FilterOverlaps(list, filtered_matches) ==
    IF list = <<>> THEN filtered_matches
    ELSE LET x == Head(list)
         IN  FilterOverlaps(Tail(list),
                 IF \E j \in 1..Len(filtered_matches) :
                        Overlaps(x, filtered_matches[j])
                 THEN filtered_matches
                 ELSE Append(filtered_matches, x))

\* lines 365-367
RECURSIVE ApplyHighlights(_, _)
ApplyHighlights(highlighted_text, filtered_matches) ==
    IF filtered_matches = <<>> THEN highlighted_text
    ELSE LET x == Head(filtered_matches)
         IN  ApplyHighlights(
                 Slice(highlighted_text, 0, x.start) \o <<"[">> \o x.matched_text
                     \o <<"]">>
                     \o Slice(highlighted_text, x.end, Len(highlighted_text)),
                 Tail(filtered_matches))

\* matches_to_highlight before the sort (lines 261-346)
CollectSpans(terms, txt) ==
    ConcatAll([j \in 1..Len(terms) |-> TermSpans(terms[j], txt)])

\* a highlighter that brackets the whole text when it has no span
Highlighted_BracketAll(txt, terms, matches_to_highlight, filtered_matches) ==
    [terms |-> terms,
     matches_to_highlight |-> matches_to_highlight,
     filtered_matches |-> filtered_matches,
     highlighted_text |->
         IF filtered_matches = <<>> /\ txt # <<>>
         THEN <<"[">> \o txt \o <<"]">>
         ELSE ApplyHighlights(txt, filtered_matches)]

\* what highlight_search_terms has computed when it returns
Highlighted(txt, terms, matches_to_highlight, filtered_matches) ==
    [terms |-> terms,
     matches_to_highlight |-> matches_to_highlight,
     filtered_matches |-> filtered_matches,
     highlighted_text |-> ApplyHighlights(txt, filtered_matches)]

HighlightSorted(txt, terms, matches_to_highlight) ==
    Highlighted(txt, terms, matches_to_highlight,
                FilterOverlaps(matches_to_highlight, <<>>))

RECURSIVE SortLaterFirst(_, _)
SortLaterFirst(list, sorted) ==
    IF list = <<>> THEN sorted
    ELSE SortLaterFirst(Tail(list), InsertLaterFirst(sorted, Head(list)))

\* a highlighter whose sort is not stable
HighlightTerms_LaterFirst(txt, terms) ==
    HighlightSorted(txt, terms, SortLaterFirst(CollectSpans(terms, txt), <<>>))

HighlightTerms(txt, terms) ==
    HighlightSorted(txt, terms, SortByStartDesc(CollectSpans(terms, txt), <<>>))

highlight_search_terms(txt, q) == HighlightTerms(txt, FindTerms(q, 0))

-----------------------------------------------------------------------------
(* Inputs of the highlighter                                               *)

MaxTextLen == 3
MaxHighlightTerms == 2

TextAlphabet == {"a", "B", " ", "!"}

GodIsLove ==
    <<"G","o","d"," ","i","s"," ","l","o","v","e",","," ",
      "n","o","t"," ","h","a","t","e">>

HighlightTexts == UNION {[1..n -> TextAlphabet] : n \in 0..MaxTextLen}

HighlightTokens ==
    { <<"a">>, <<"a","b">>, <<"*">>, <<"a","*">>, <<"a","?">>,
      <<"\"","a"," ","b","\"">>, <<"!","a">>, <<"A","N","D">> }

HighlightQueries ==
    {Join(ts, <<" ">>) : ts \in TokenLists(HighlightTokens, MaxHighlightTerms)}

\* longer texts over letters and a space, each with a token that has a `*`
\* between two letters and with a plain token of three letters
WordTexts == [1..(MaxTextLen + 1) -> {"a", "B", " "}]

WordScenarios ==
    {<<t, q>> : t \in WordTexts, q \in {<<"a","*","b">>, <<"b","a","b">>}}

\* the scenarios of the specification, as (text, query) pairs
HighlightScenarios ==
    WordScenarios \cup
    { <<GodIsLove, LoveAndNotHate>>,
      <<<<"a","b"," ","c","d">>, <<"a","b","?","c","d">>>>,
      <<<<"a"," ","a">>, <<"a","*","a"," ","a">>>>,
      <<<<"a","!","B">>, <<"a","!">>>>,
      <<<<"B","a","B"," ","a","B","a","B">>, <<"b","a","b">>>>,
      << <<"a">>, <<"\"", "a">> >>,
      << <<"a"," ","b">>, <<"b", " ", "O", "R", " ", "\"", "a">> >>,
      <<GodIsLove, <<"!","h","a","t","e">> >>,
      << <<"I"," ","l","o","v","e",","," ","!","h","a","t","e">>,
          LoveAndNotHate>>,
      << <<"b","e","l","o","v","e","d">>, <<"l","o","v","*">> >>,
      << <<"a","b"," ","a","b">>, <<"a","b","?","a","b">> >>,
      << <<"a","[","B","]">>, <<"a","b">> >> }

InitHighlight ==
    /\ pc = "start"
    /\ \/ query \in HighlightQueries /\ text \in HighlightTexts
       \/ \E sc \in HighlightScenarios : text = sc[1] /\ query = sc[2]
    /\ case_sensitive = FALSE
    /\ compiled = None
    /\ highlighted = None
    /\ search_type = None
    /\ verse_ref = None
    /\ InitEngine

Highlight ==
    /\ pc = "start"
    /\ pc' = "highlighted"
    /\ highlighted' = highlight_search_terms(text, query)
    /\ UNCHANGED <<queryVars, storeVars, searchVars, compiled,
                   search_type, verse_ref, canonical_book, results,
                   connections>>

NextHighlight == Highlight

SpecHighlight == InitHighlight /\ [][NextHighlight]_vars


-----------------------------------------------------------------------------
(* The storage predicate: LOWER(text) LIKE LOWER(pattern)                  *)

\* s[pos:] matches pat[i..], where % is any run of characters and _ is any
\* one character
RECURSIVE LikeFrom(_, _, _, _)
LikeFrom(pat, i, s, pos) ==
    IF i > Len(pat) THEN pos = Len(s)
    ELSE IF pat[i] = "%"
    THEN \E p \in pos..Len(s) : LikeFrom(pat, i + 1, s, p)
    ELSE IF pat[i] = "_"
    THEN pos < Len(s) /\ LikeFrom(pat, i + 1, s, pos + 1)
    ELSE pos < Len(s) /\ s[pos + 1] = pat[i] /\ LikeFrom(pat, i + 1, s, pos + 1)

LikeLower(txt, pattern) == LikeFrom(Lower(pattern), 1, Lower(txt), 0)

-----------------------------------------------------------------------------
(* Properties of the Highlighter                                           *)

StripBrackets(s) == SelectSeq(s, LAMBDA c : c \notin {"[", "]"})

\* C1: removing every `[` and `]` from highlight(text, query) gives back
\* text, for every text and query.
C1_RoundTrip ==
    pc = "highlighted" => StripBrackets(highlighted.highlighted_text) = text

\* C2: any two spans accepted for bracketing that start at different
\* offsets do not overlap: the one that starts first ends at or before the
\* start of the other.
C2_AcceptedSpansDisjoint ==
    pc = "highlighted" =>
        \A i, j \in 1..Len(highlighted.filtered_matches) :
            LET a == highlighted.filtered_matches[i]
                b == highlighted.filtered_matches[j]
            IN  a.start < b.start => a.end <= b.start

\* two spans were accepted and a candidate that reaches into an accepted
\* span starting elsewhere was turned down
C2_Witness ==
    /\ pc = "highlighted"
    /\ \E i, j \in 1..Len(highlighted.filtered_matches) :
           highlighted.filtered_matches[i].start
               < highlighted.filtered_matches[j].start
    /\ \E k \in 1..Len(highlighted.matches_to_highlight) :
           LET x == highlighted.matches_to_highlight[k]
           IN  \E j \in 1..Len(highlighted.filtered_matches) :
                   LET y == highlighted.filtered_matches[j]
                   IN  x.start < y.start /\ x.end > y.start /\ y.end > y.start

\* the query is one term that is neither an operator nor negated
IsSingleTermQuery(q) ==
    LET terms == FindTerms(q, 0)
    IN  Len(terms) = 1 /\ ~IsOperator(terms[1]) /\ ~StartsWith(q, "!")

\* C3: for a query of one non-negated term, a text that satisfies the
\* compiled case-insensitive LIKE predicate gets at least one bracketed
\* span.
C3_HighlightMirrorsPredicate ==
    (/\ pc = "highlighted"
     /\ IsSingleTermQuery(query)
     /\ LikeLower(text, like_pattern(FindTerms(query, 0)[1]))) =>
        highlighted.filtered_matches # <<>>

IsPlainTerm(term) ==
    /\ ~IsSkippedTerm(term)
    /\ ~IsQuoted(term)
    /\ ~HasChar(term, "*")
    /\ ~HasChar(term, "?")

-----------------------------------------------------------------------------
(* The storage collaborator: the statements of the engine, evaluated on    *)
(* the store                                                               *)

\* the row of the books table a verse is joined with
BookOf(db, abbrev) ==
    db.books[CHOOSE i \in 1..Len(db.books) : db.books[i].abbrev = abbrev]

HasBook(db, abbrev) == \E i \in 1..Len(db.books) : db.books[i].abbrev = abbrev

\* the joined rows of books, verses, verse_texts and translations
JoinedRows(db) == {r \in db.verse_texts : HasBook(db, r.book)}

\* ORDER BY b.order_index, v.chapter, v.verse_number
RowBefore(db, r1, r2) ==
    LET o1 == BookOf(db, r1.book).order_index
        o2 == BookOf(db, r2.book).order_index
    IN  \/ o1 < o2
        \/ o1 = o2 /\ r1.chapter < r2.chapter
        \/ o1 = o2 /\ r1.chapter = r2.chapter /\ r1.verse < r2.verse

RECURSIVE OrderRows(_, _)
OrderRows(db, rows) ==
    IF rows = {} THEN <<>>
    ELSE LET first == CHOOSE r \in rows :
                          \A r2 \in rows \ {r} : ~RowBefore(db, r2, r)
         IN  <<first>> \o OrderRows(db, rows \ {first})

\* the value of `a AND b OR c ...` for the values of its conditions: AND
\* binds tighter than OR
RECURSIVE EvalOperators(_, _)
EvalOperators(values, operators) ==
    IF Len(values) = 1 THEN values[1]
    ELSE IF Head(operators) = <<"O","R">>
    THEN values[1] \/ EvalOperators(Tail(values), Tail(operators))
    ELSE EvalOperators(<<values[1] /\ values[2]>> \o Tail(Tail(values)),
                       Tail(operators))

\* [NOT (] text LIKE ? [)] with the parameter bound to its placeholder; LIKE
\* of the store folds the case of ASCII letters with or without LOWER()
EvalCondition(cond, param, txt) ==
    IF cond.negated THEN ~LikeLower(txt, param) ELSE LikeLower(txt, param)

\* the value of where_clause on one text, the k-th parameter bound to the
\* k-th placeholder
EvalWhere(where_clause, search_terms, txt) ==
    LET conds == SelectSeq(where_clause, LAMBDA x : x.kind = "cond")
        ops == SelectSeq(where_clause, LAMBDA x : x.kind = "op")
    IN  EvalOperators(
            [k \in 1..Len(conds) |->
                EvalCondition(conds[k], search_terms[k], txt)],
            [k \in 1..Len(ops) |-> ops[k].op])

\* what a statement gives: its rows, or the sqlite3.Error it raised
sqlite3_Error == [error |-> TRUE, rows |-> <<>>]
Fetched(rows) == [error |-> FALSE, rows |-> rows]

\* cursor.execute + fetchall of the word search statement: a syntax error
\* for an empty where_clause, an error when the number of parameters is not
\* the number of placeholders
ExecuteWords(db, fail, translation, where_clause, search_terms) ==
    LET conds == SelectSeq(where_clause, LAMBDA x : x.kind = "cond")
    IN  IF translation \in fail \/ where_clause = <<>>
           \/ Len(conds) # Len(search_terms)
        THEN sqlite3_Error
        ELSE Fetched(OrderRows(db,
                 {r \in JoinedRows(db) :
                     /\ r.translation = translation
                     /\ EvalWhere(where_clause, search_terms, r.text)}))

\* cursor.execute + fetchall of the reference statement
ExecuteReference(db, fail, translation, ref) ==
    IF translation \in fail THEN sqlite3_Error
    ELSE Fetched(OrderRows(db,
             {r \in JoinedRows(db) :
                 /\ Lower(BookOf(db, r.book).name) = Lower(ref.book)
                 /\ r.translation = translation
                 /\ r.chapter = ref.chapter
                 /\ ref.start_verse <= r.verse
                 /\ r.verse <= ref.end_verse}))

\* a limit that lets one more row through
Limit_OneMore(rows, n) == IF n < 0 THEN rows ELSE Slice(rows, 0, n + 1)

\* LIMIT n: a negative n is no limit
Limit(rows, n) == IF n < 0 THEN rows ELSE Slice(rows, 0, n)

\* cursor.execute + fetchall of the reading statement
\* of get_continuous_reading; n is num_verses
ExecuteReading(db, fail, translation, book, chapter, start_verse, n) ==
    IF translation \in fail THEN sqlite3_Error
    ELSE Fetched(Limit(OrderRows(db,
                           {r \in JoinedRows(db) :
                               /\ r.translation = translation
                               /\ r.book = book
                               /\ r.chapter = chapter
                               /\ r.verse >= start_verse}),
                       n))


-----------------------------------------------------------------------------
(* Result Assembler                                                        *)

\* text.split(): the maximal runs of non-whitespace characters
RECURSIVE Split(_, _)
Split(s, p) ==
    IF p >= Len(s) THEN <<>>
    ELSE IF IsSpace(s[p + 1]) THEN Split(s, p + 1)
    ELSE <<Slice(s, p, SkipNonSpace(s, p))>> \o Split(s, SkipNonSpace(s, p))

\* s.replace(old, new) for a non-empty old: the occurrences are taken from
\* left to right and do not overlap
RECURSIVE ReplaceStr(_, _, _)
ReplaceStr(s, old, new) ==
    IF Len(s) < Len(old) THEN s
    ELSE IF Slice(s, 0, Len(old)) = old
    THEN new \o ReplaceStr(Slice(s, Len(old), Len(s)), old, new)
    ELSE <<Head(s)>> \o ReplaceStr(Tail(s), old, new)

\* the keys of the abbreviations dict
abbreviations ==
    { <<"a","n","d">>, <<"t","h","e">>,
      <<"t","h","a","t">>, <<"u","n","t","o">>,
      <<"u","p","o","n">>, <<"w","h","i","c","h">>,
      <<"s","h","a","l","l">>, <<"w","i","t","h">>,
      <<"f","r","o","m">>, <<"t","h","e","y">>,
      <<"t","h","e","m">>, <<"t","h","e","i","r">>,
      <<"t","h","e","r","e">>, <<"w","h","e","r","e">>,
      <<"w","h","e","n">>, <<"w","h","a","t">>,
      <<"w","i","l","l">>, <<"s","a","i","d">>,
      <<"c","a","m","e">>, <<"c","o","m","e">>,
      <<"w","e","n","t">>, <<"w","e","r","e">>,
      <<"b","e","e","n">>, <<"h","a","v","e">>,
      <<"h","a","s">>, <<"h","a","d">> }

\* re.sub(r'[^\w]', '', word.lower())
clean_word(word) == SelectSeq(Lower(word), IsWord)

DotDot == <<".", ".">>

\* abbreviated_words of lines 420-428
abbreviated_words(words) ==
    [i \in 1..Len(words) |->
        IF clean_word(words[i]) \in abbreviations THEN DotDot ELSE words[i]]

\* ''.join(result_parts) of lines 431-441
RECURSIVE JoinParts(_, _)
JoinParts(words, i) ==
    IF i > Len(words) THEN <<>>
    ELSE (IF words[i] = DotDot THEN DotDot
          ELSE IF i > 1 THEN <<" ">> \o words[i]
          ELSE words[i])
         \o JoinParts(words, i + 1)

abbreviate_text(txt) ==
    ReplaceStr(
        ReplaceStr(
            ReplaceStr(JoinParts(abbreviated_words(Split(txt, 0)), 1),
                       <<" ", ".", ".">>, DotDot),
            <<".", ".", " ">>, DotDot),
        <<",", " ">>, <<",">>)

SearchResult(translation, row, highlighted_text) ==
    [translation |-> translation, book |-> row.book, chapter |-> row.chapter,
     verse |-> row.verse, text |-> row.text,
     highlighted_text |-> highlighted_text]

\* x in enabled_translations
InList(x, list) == \E i \in 1..Len(list) : list[i] = x

\* the results of one translation's rows of a word search
WordResults(translation, rows, q) ==
    [j \in 1..Len(rows) |->
        SearchResult(translation, rows[j],
                     highlight_search_terms(rows[j].text, q).highlighted_text)]

\* the results of one translation's rows of a reference or reading fetch
PlainResults(translation, rows) ==
    [j \in 1..Len(rows) |-> SearchResult(translation, rows[j], rows[j].text)]

\* the loop of lines 553-587 from translation i on
RECURSIVE SearchWordsFrom(_, _, _, _, _, _)
SearchWordsFrom(db, fail, trs, enabled, i, c) ==
    IF i > Len(trs) THEN <<>>
    ELSE IF ~InList(trs[i].abbreviation, enabled)
    THEN SearchWordsFrom(db, fail, trs, enabled, i + 1, c)
    ELSE WordResults(trs[i].abbreviation,
                     ExecuteWords(db, fail, trs[i].abbreviation,
                                  c.where_clause, c.search_terms).rows,
                     c.query)
         \o SearchWordsFrom(db, fail, trs, enabled, i + 1, c)

\* what a call gives: the list it returns, or the exception it raised
Raised == [raised |-> TRUE, results |-> <<>>]
Completed(list) == [raised |-> FALSE, results |-> list]

\* a word search that gives up when a statement of an enabled translation
\* fails
search_words_AbortOnError(db, fail, trs, q, enabled, cs) ==
    IF build_word_search_query(q, cs).raised
       \/ \E i \in 1..Len(trs) :
              trs[i].abbreviation \in fail /\ InList(trs[i].abbreviation, enabled)
    THEN Raised
    ELSE Completed(SearchWordsFrom(db, fail, trs, enabled, 1,
             [where_clause |-> build_word_search_query(q, cs).where_clause,
              search_terms |-> build_word_search_query(q, cs).search_terms,
              query |-> q]))

\* _search_words: build_word_search_query may raise IndexError
search_words(db, fail, trs, q, enabled, cs) ==
    IF build_word_search_query(q, cs).raised THEN Raised
    ELSE Completed(SearchWordsFrom(db, fail, trs, enabled, 1,
             [where_clause |-> build_word_search_query(q, cs).where_clause,
              search_terms |-> build_word_search_query(q, cs).search_terms,
              query |-> q]))

\* the loop of lines 502-543 from translation i on
RECURSIVE SearchReferenceFrom(_, _, _, _, _, _)
SearchReferenceFrom(db, fail, trs, enabled, i, ref) ==
    IF i > Len(trs) THEN <<>>
    ELSE IF ~InList(trs[i].abbreviation, enabled)
    THEN SearchReferenceFrom(db, fail, trs, enabled, i + 1, ref)
    ELSE PlainResults(trs[i].abbreviation,
                      ExecuteReference(db, fail, trs[i].abbreviation,
                                       ref).rows)
         \o SearchReferenceFrom(db, fail, trs, enabled, i + 1, ref)

search_verse_reference(db, fail, trs, q, enabled) ==
    IF parse_verse_reference(q) = None THEN Completed(<<>>)
    ELSE Completed(SearchReferenceFrom(db, fail, trs, enabled, 1,
                                       parse_verse_reference(q)))


\* f"{result.book}_{result.chapter}_{result.verse}"
verse_key(result) ==
    result.book \o <<"_">> \o Numeral(result.chapter) \o <<"_">>
    \o Numeral(result.verse)

\* next((t for t in self.translations if t.abbreviation == abbrev), None)
FindTranslation(trs, abbrev) ==
    IF \E i \in 1..Len(trs) : trs[i].abbreviation = abbrev
    THEN trs[CHOOSE i \in 1..Len(trs) :
                 /\ trs[i].abbreviation = abbrev
                 /\ \A j \in 1..(i - 1) : trs[j].abbreviation # abbrev]
    ELSE None

\* `if current_translation and existing_translation:` and the comparison of
\* their sort orders
BetterSortOrder(current_translation, existing_translation) ==
    /\ current_translation # None
    /\ existing_translation # None
    /\ current_translation.sort_order < existing_translation.sort_order

\* a filter that keeps the row it saw last
KeepUnique_KeepLast(trs, unique_results, result) ==
    DictSet(unique_results, verse_key(result), result)

\* unique_results after one more result (lines 596-607)
KeepUnique(trs, unique_results, result) ==
    IF ~DictHas(unique_results, verse_key(result))
    THEN DictSet(unique_results, verse_key(result), result)
    ELSE IF BetterSortOrder(
                FindTranslation(trs, result.translation),
                FindTranslation(trs,
                    DictGet(unique_results, verse_key(result)).translation))
    THEN DictSet(unique_results, verse_key(result), result)
    ELSE unique_results

RECURSIVE UniqueFrom(_, _, _, _)
UniqueFrom(trs, list, i, unique_results) ==
    IF i > Len(list) THEN unique_results
    ELSE UniqueFrom(trs, list, i + 1, KeepUnique(trs, unique_results, list[i]))

DictValues(d) == [i \in 1..Len(d) |-> d[i].value]

filter_unique_verses(trs, list) == DictValues(UniqueFrom(trs, list, 1, <<>>))

\* the post-pass of lines 475-478
Abbreviated(list) ==
    [i \in 1..Len(list) |->
        [list[i] EXCEPT !.text = abbreviate_text(list[i].text),
                        !.highlighted_text =
                            abbreviate_text(list[i].highlighted_text)]]

\* {t.abbreviation: t.sort_order for t in self.translations}
RECURSIVE translation_order(_, _)
translation_order(trs, d) ==
    IF trs = <<>> THEN d
    ELSE translation_order(Tail(trs),
             DictSet(d, Head(trs).abbreviation, Head(trs).sort_order))

\* a key that puts the books the registry does not know first
SortKey_UnknownFirst(trs, order, x) ==
    << DictGetOr(translation_order(trs, <<>>), x.translation, 999),
       DictGetOr(order, x.book, 0), x.chapter, x.verse >>

\* the key of the sort of lines 482-487
SortKey(trs, order, x) ==
    << DictGetOr(translation_order(trs, <<>>), x.translation, 999),
       DictGetOr(order, x.book, 999), x.chapter, x.verse >>

\* tuple comparison k1 < k2
RECURSIVE KeyLess(_, _)
KeyLess(k1, k2) ==
    IF k1 = <<>> \/ k2 = <<>> THEN k1 = <<>> /\ k2 # <<>>
    ELSE IF Head(k1) # Head(k2) THEN Head(k1) < Head(k2)
    ELSE KeyLess(Tail(k1), Tail(k2))

\* list.sort is stable: x goes behind every element whose key is not
\* greater than its own
RECURSIVE InsertByKey(_, _, _, _)
InsertByKey(trs, order, sorted, x) ==
    IF sorted = <<>> THEN <<x>>
    ELSE IF KeyLess(SortKey(trs, order, x), SortKey(trs, order, Head(sorted)))
    THEN <<x>> \o sorted
    ELSE <<Head(sorted)>> \o InsertByKey(trs, order, Tail(sorted), x)

RECURSIVE SortByKey(_, _, _, _)
SortByKey(trs, order, list, sorted) ==
    IF list = <<>> THEN sorted
    ELSE SortByKey(trs, order, Tail(list),
                   InsertByKey(trs, order, sorted, Head(list)))


\* a fallback to every translation of the registry, enabled or not
EnabledAbbreviations_All(trs) == [i \in 1..Len(trs) |-> trs[i].abbreviation]

\* [t.abbreviation for t in self.translations if t.enabled]
EnabledAbbreviations(trs) ==
    LET enabled == SelectSeq(trs, LAMBDA t : t.enabled)
    IN  [i \in 1..Len(enabled) |-> enabled[i].abbreviation]

\* lines 464-467: the search the query type selects
Dispatch(db, fail, trs, q, enabled, cs) ==
    IF detect_search_type(q) = "verse_reference"
    THEN search_verse_reference(db, fail, trs, q, enabled)
    ELSE search_words(db, fail, trs, q, enabled, cs)

\* lines 471-487: the post-processing and the sort
PostProcess(trs, order, list, unique, abbreviate) ==
    SortByKey(trs, order,
              IF abbreviate
              THEN Abbreviated(IF unique THEN filter_unique_verses(trs, list)
                               ELSE list)
              ELSE IF unique THEN filter_unique_verses(trs, list)
              ELSE list,
              <<>>)

\* a try block without its `except Exception`
TryBlock_NoExcept(trs, order, found, unique, abbreviate) ==
    IF found.raised
    THEN [raised |-> TRUE, results |-> <<>>, closed |-> FALSE]
    ELSE [raised |-> FALSE,
          results |-> PostProcess(trs, order, found.results, unique,
                                  abbreviate),
          closed |-> TRUE]

\* what the try block of lines 460-490 leaves: the list it returns, whether
\* an exception leaves the call, and whether conn.close() was reached
TryBlock(trs, order, found, unique, abbreviate) ==
    IF found.raised
    THEN \* except Exception: results is still []
         [raised |-> FALSE, results |-> <<>>, closed |-> FALSE]
    ELSE [raised |-> FALSE,
          results |-> PostProcess(trs, order, found.results, unique,
                                  abbreviate),
          closed |-> TRUE]

search_verses(db, fail, trs, order, q, enabled, cs, unique, abbreviate) ==
    TryBlock(trs, order,
             Dispatch(db, fail, trs, q,
                      IF enabled = <<>> THEN EnabledAbbreviations(trs)
                      ELSE enabled,
                      cs),
             unique, abbreviate)

\* get_continuous_reading: any exception empties the list and skips
\* conn.close()
ReadingResults(translation, fetched) ==
    IF fetched.error
    THEN [raised |-> FALSE, results |-> <<>>, closed |-> FALSE]
    ELSE [raised |-> FALSE,
          results |-> PlainResults(translation, fetched.rows),
          closed |-> TRUE]

\* n is num_verses
get_continuous_reading(db, fail, translation, book, chapter, start_verse, n) ==
    ReadingResults(translation,
                   ExecuteReading(db, fail, translation, book, chapter,
                                  start_verse, n))

-----------------------------------------------------------------------------
(* Inputs of the assembler                                                 *)

SearchQueries ==
    { <<"a">>, <<"b">>, <<"t","h","e">>, <<"a"," ","O","R"," ","B">>, <<"a"," ","b"," ","O","R"," ","c">>, <<"A","N","D">>, <<>>,
      <<"!">>, <<"!","a">>, <<"a","*">>,
      <<"G","e","n"," ","1",":","1">>, <<"g","e","n"," ","1",":","1","-","3">>, <<"X","y","z"," ","1",":","1">>, <<"E","n","o"," ","1",":","1">>,
      <<"G","e","n"," ","1",":","3","-","1">>, <<" ","j","h","n"," ","1",":","1"," ">>, <<"\"","t","h","e"," ","a","b","\"">> }

EnabledLists ==
    { <<>>, <<"KJV">>, <<"ASV", "KJV">>, <<"KJV", "ASV", "WEB">> }

\* at most one translation's statement fails
FailingSets == {{}} \cup {{TranslationRows[i].abbreviation} : i \in 1..2}

InitSearch ==
    /\ pc = "start"
    /\ query \in SearchQueries
    /\ text = <<>>
    /\ case_sensitive \in BOOLEAN
    /\ compiled = None
    /\ highlighted = None
    /\ search_type = None
    /\ verse_ref = None
    /\ book_rows = BookRows
    /\ translations \in TranslationLists
    /\ database \in Databases
    /\ failing \in FailingSets
    /\ enabled_translations \in EnabledLists
    /\ unique_verses \in BOOLEAN
    /\ abbreviate_results \in BOOLEAN
    /\ reading = None
    /\ canonical_book = None
    /\ results = None
    /\ connections = 0

\* one call of search_verses
SearchOutcome ==
    search_verses(database, failing, translations,
                  load_book_order(book_rows, <<>>), query,
                  enabled_translations, case_sensitive, unique_verses,
                  abbreviate_results)

Finish(outcome, done) ==
    /\ pc' = IF outcome.raised THEN "raised" ELSE done
    /\ results' = outcome.results
    /\ connections' = IF outcome.closed THEN connections ELSE connections + 1

SearchVerses ==
    /\ pc = "start"
    /\ Finish(SearchOutcome, "searched")
    /\ UNCHANGED <<queryVars, storeVars, searchVars, compiled, highlighted,
                   search_type, verse_ref, canonical_book>>

NextSearch == SearchVerses

SpecSearch == InitSearch /\ [][NextSearch]_vars


-----------------------------------------------------------------------------
(* Inputs of the reading window fetcher                                    *)

MaxStartVerse == 4
MaxCount == 3

ReadingArguments ==
    [translation : {"KJV", "ASV", "XXX"},
     book : {<<"G","e","n">>, <<"g","e","n">>, <<"J","h","n">>, <<"E","n","o">>},
     chapter : {1, 2},
     start_verse : 0..MaxStartVerse,
     num_verses : 0..MaxCount]

InitRead ==
    /\ pc = "start"
    /\ query = <<>>
    /\ text = <<>>
    /\ case_sensitive = FALSE
    /\ compiled = None
    /\ highlighted = None
    /\ search_type = None
    /\ verse_ref = None
    /\ book_rows = BookRows
    /\ translations = load_translations(TranslationRows)
    /\ database \in Databases
    /\ failing \in FailingSets
    /\ enabled_translations = <<>>
    /\ unique_verses = FALSE
    /\ abbreviate_results = FALSE
    /\ reading \in ReadingArguments
    /\ canonical_book = None
    /\ results = None
    /\ connections = 0

\* one call of get_continuous_reading
Read ==
    /\ pc = "start"
    /\ Finish(get_continuous_reading(database, failing, reading.translation,
                  reading.book, reading.chapter, reading.start_verse,
                  reading.num_verses),
              "read")
    /\ UNCHANGED <<queryVars, storeVars, searchVars, compiled, highlighted,
                   search_type, verse_ref, canonical_book>>

NextRead == Read

SpecRead == InitRead /\ [][NextRead]_vars

-----------------------------------------------------------------------------
(* Properties of the Result Assembler                                      *)

Coordinate(r) == <<r.book, r.chapter, r.verse>>

\* the sort order the registry holds for a translation
SortOrderOf(abbrev) ==
    CHOOSE n \in {translations[i].sort_order : i \in 1..Len(translations)} :
        \E i \in 1..Len(translations) :
            /\ translations[i].abbreviation = abbrev
            /\ translations[i].sort_order = n

\* the rows the same search returns when unique_verses is not set
RowsOfAllTranslations ==
    search_verses(database, failing, translations,
                  load_book_order(book_rows, <<>>), query,
                  enabled_translations, case_sensitive, FALSE,
                  abbreviate_results).results

\* list holds one row of all for every coordinate of all, no two rows of
\* one coordinate, and for each the row of a translation whose sort order
\* none of the translations of that coordinate undercuts
LowestPerCoordinate(all, list) ==
    /\ \A i, j \in 1..Len(list) :
           i # j => Coordinate(list[i]) # Coordinate(list[j])
    /\ \A i \in 1..Len(list) : \E k \in 1..Len(all) : all[k] = list[i]
    /\ \A k \in 1..Len(all) :
           \E i \in 1..Len(list) :
               /\ Coordinate(list[i]) = Coordinate(all[k])
               /\ SortOrderOf(list[i].translation)
                      <= SortOrderOf(all[k].translation)

\* C15: with unique_verses set the result has one row for every coordinate
\* some translation returned and no more than one, that row is a row some
\* translation returned, and no translation that returned the coordinate
\* has a lower sort order than the translation of that row.
C15_UniqueLowestSortOrder ==
    (pc = "searched" /\ unique_verses) =>
        LowestPerCoordinate(RowsOfAllTranslations, results)

\* two translations returned one coordinate and the filter dropped a row
C15_Witness ==
    /\ pc = "searched"
    /\ unique_verses
    /\ results # <<>>
    /\ Len(results) < Len(RowsOfAllTranslations)

\* the registry knows the book of a row
KnownBook(r) == \E i \in 1..Len(book_rows) : book_rows[i].abbrev = r.book

IndexOfBook(r) ==
    book_rows[CHOOSE i \in 1..Len(book_rows) :
                  book_rows[i].abbrev = r.book].order_index

\* r1 may stand before r2 in a list sorted by (translation sort order, book
\* order index, chapter, verse), unknown books behind the known ones
InOrder(r1, r2) ==
    LET t1 == SortOrderOf(r1.translation)
        t2 == SortOrderOf(r2.translation)
        sameBookRank ==
            IF KnownBook(r1) /\ KnownBook(r2)
            THEN IndexOfBook(r1) = IndexOfBook(r2)
            ELSE ~KnownBook(r1) /\ ~KnownBook(r2)
        bookBefore ==
            IF KnownBook(r1) /\ KnownBook(r2)
            THEN IndexOfBook(r1) < IndexOfBook(r2)
            ELSE KnownBook(r1) /\ ~KnownBook(r2)
    IN  \/ t1 < t2
        \/ t1 = t2 /\ bookBefore
        \/ t1 = t2 /\ sameBookRank /\ r1.chapter < r2.chapter
        \/ t1 = t2 /\ sameBookRank /\ r1.chapter = r2.chapter
           /\ r1.verse <= r2.verse

\* C16: the list search returns is sorted ascending by (translation sort
\* order, book order index, chapter, verse) whatever the unique_verses and
\* abbreviate_results flags, the rows of books the registry does not know
\* standing behind the rows of known books of the same translation.
C16_ResultsSorted ==
    pc = "searched" =>
        \A i, j \in 1..Len(results) : i < j => InOrder(results[i], results[j])

\* a result with both flags set that holds, for one translation, a row of a
\* known book and a row of an unknown book
C16_Witness ==
    /\ pc = "searched"
    /\ unique_verses
    /\ abbreviate_results
    /\ \E i, j \in 1..Len(results) :
           /\ results[i].translation = results[j].translation
           /\ KnownBook(results[i])
           /\ ~KnownBook(results[j])

\* the store without the verse texts of the translations that fail
WithoutFailing ==
    [database EXCEPT
        !.verse_texts = {r \in database.verse_texts :
                            r.translation \notin failing}]

\* C17: when the statement of one enabled translation fails, search returns
\* what it returns when that translation has no rows and nothing fails.
C17_FailureIsSkipped ==
    pc = "searched" =>
        results = search_verses(WithoutFailing, {}, translations,
                      load_book_order(book_rows, <<>>), query,
                      enabled_translations, case_sensitive, unique_verses,
                      abbreviate_results).results

\* the statement of an enabled translation with matching rows failed, and
\* rows of another translation were returned
C17_Witness ==
    /\ pc = "searched"
    /\ failing # {}
    /\ results # <<>>
    /\ \A i \in 1..Len(results) : results[i].translation \notin failing
    /\ Len(search_verses(database, {}, translations,
               load_book_order(book_rows, <<>>), query,
               enabled_translations, case_sensitive, unique_verses,
               abbreviate_results).results) > Len(results)

\* C18: no call of search raises, every call returns a list, and the call
\* with the empty query returns the empty list.
C18_NoFatalPath ==
    /\ pc # "raised"
    /\ pc = "searched" =>
           /\ DOMAIN results = 1..Len(results)
           /\ query = <<>> => results = <<>>

\* searches with the empty query, with a lone `!` and with only an operator
\* have returned
C18_Witness ==
    /\ pc = "searched"
    /\ query \in {<<>>, <<"!">>, <<"A","N","D">>}
    /\ results = <<>>


-----------------------------------------------------------------------------
(* Properties of the Reading Window Fetcher                                *)

\* the verse texts of the store the arguments of read select
Selected ==
    {r \in database.verse_texts :
        /\ \E i \in 1..Len(database.books) : database.books[i].abbrev = r.book
        /\ r.translation = reading.translation
        /\ r.book = reading.book
        /\ r.chapter = reading.chapter
        /\ r.verse >= reading.start_verse}

Smaller(a, b) == IF a < b THEN a ELSE b

\* C19: read returns at most num_verses rows, each of the translation, book
\* and chapter asked for and with a verse from start_verse on, in strictly
\* ascending verse order, each with its highlighted text equal to its text;
\* when the statement does not fail they are the num_verses lowest verses
\* the store holds for these arguments (all of them if it holds fewer).
C19_ReadingWindow ==
    pc = "read" =>
        /\ Len(results) <= reading.num_verses
        /\ \A i \in 1..Len(results) :
               /\ results[i].translation = reading.translation
               /\ results[i].book = reading.book
               /\ results[i].chapter = reading.chapter
               /\ results[i].verse >= reading.start_verse
               /\ results[i].highlighted_text = results[i].text
               /\ \E r \in Selected :
                      r.verse = results[i].verse /\ r.text = results[i].text
        /\ \A i, j \in 1..Len(results) :
               i < j => results[i].verse < results[j].verse
        /\ reading.translation \notin failing =>
               /\ Len(results)
                      = Smaller(reading.num_verses, Cardinality(Selected))
               /\ \A r \in Selected :
                      (\A i \in 1..Len(results) : results[i].verse # r.verse)
                          => \A i \in 1..Len(results) :
                                 results[i].verse < r.verse

\* a read that the limit cut short, from a start verse that skips a verse
C19_Witness ==
    /\ pc = "read"
    /\ reading.start_verse > 1
    /\ Len(results) = reading.num_verses
    /\ Len(results) >= 1
    /\ Cardinality(Selected) > Len(results)


-----------------------------------------------------------------------------
(* Highlighting of texts that no token matches                             *)

\* the highlighter finds a span of the text for some token of the query
SomeTokenMatches(txt, q) ==
    \E i \in 1..Len(FindTerms(q, 0)) : TermSpans(FindTerms(q, 0)[i], txt) # <<>>

\* C20: highlight returns the text unchanged for the empty query and for
\* every query none of whose tokens the highlighter finds in the text.
C20_NoMatchNoChange ==
    pc = "highlighted" =>
        /\ query = <<>> => highlighted.highlighted_text = text
        /\ ~SomeTokenMatches(text, query)
               => highlighted.highlighted_text = text

\* a text was highlighted with a query that has a search token but none
\* that is found in it
C20_Witness ==
    /\ pc = "highlighted"
    /\ text # <<>>
    /\ \E i \in 1..Len(highlighted.terms) : ~IsSkippedTerm(highlighted.terms[i])
    /\ ~SomeTokenMatches(text, query)
    /\ highlighted.highlighted_text = text

-----------------------------------------------------------------------------
(* Properties of the highlighter's wildcard and literal tokens            *)

\* the query is the one token it consists of
IsOneToken(q) == FindTerms(q, 0) = <<q>>

\* the run s is what the wildcard token stands for: `*` any run of
\* characters, `?` any one character, letters in either case
WildcardDenotes(term, s) == LikeLower(s, convert_wildcard_to_sql(term))

\* the scanner has reported the run from start to end as a match
IsCandidate(start, end) ==
    \E k \in 1..Len(highlighted.matches_to_highlight) :
        /\ highlighted.matches_to_highlight[k].start = start
        /\ highlighted.matches_to_highlight[k].end = end

\* C21: a span bracketed for a token with a `*` is a run the token stands
\* for, and every shorter run from the same start that the token stands for
\* is a match the scanner reported before it (the empty run of a token made
\* of `*` only); `lov*` on `beloved` gives `be[lov]ed`.
C21_ShortestRun ==
    (pc = "highlighted" /\ IsOneToken(query) /\ HasChar(query, "*")
         /\ ~IsQuoted(query)) =>
        /\ \A k \in 1..Len(highlighted.filtered_matches) :
               LET x == highlighted.filtered_matches[k]
               IN  /\ x.matched_text = Slice(text, x.start, x.end)
                   /\ WildcardDenotes(query, x.matched_text)
                   /\ \A e \in x.start..(x.end - 1) :
                          WildcardDenotes(query, Slice(text, x.start, e))
                              => IsCandidate(x.start, e)
        /\ (text = <<"b","e","l","o","v","e","d">> /\ query = <<"l","o","v","*">>)
               => highlighted.highlighted_text = <<"b","e","[","l","o","v","]","e","d">>

\* `lov*` was highlighted in `beloved`, and a token with a `*` between two
\* letters in a text that has a longer run from the same start
C21_Witness ==
    /\ pc = "highlighted"
    /\ \/ text = <<"b","e","l","o","v","e","d">> /\ query = <<"l","o","v","*">>
          /\ highlighted.highlighted_text = <<"b","e","[","l","o","v","]","e","d">>
       \/ text = <<"a","B","a","B">> /\ query = <<"a","*","b">>
          /\ highlighted.highlighted_text = <<"[","a","B","]","[","a","B","]">>


\* the span from start to end lies inside a run of the text that the
\* wildcard token stands for
InsideWildcardMatch(term, txt, start, end) ==
    \E s \in 0..start : \E e \in end..Len(txt) :
        WildcardDenotes(term, Slice(txt, s, e))

\* C22: every span bracketed for a token that has a `?` and no `*` lies
\* inside a run of the text that the token matches.
C22_WordsInsideMatch ==
    (pc = "highlighted" /\ IsOneToken(query) /\ HasChar(query, "?")
         /\ ~HasChar(query, "*") /\ ~IsQuoted(query)) =>
        \A k \in 1..Len(highlighted.filtered_matches) :
            LET x == highlighted.filtered_matches[k]
            IN  InsideWildcardMatch(query, text, x.start, x.end)


-----------------------------------------------------------------------------
(* Properties of overlap resolution                                        *)

SpanLen(x) == x.end - x.start

\* the candidate at position k of the scan was accepted
Survives(k) ==
    \E j \in 1..Len(highlighted.filtered_matches) :
        highlighted.filtered_matches[j] = highlighted.matches_to_highlight[k]

\* C23: of two candidate spans that overlap, one of which survives the
\* filter and one of which does not, the survivor is not the shorter.
C23_LongestSurvives ==
    pc = "highlighted" =>
        \A i, j \in 1..Len(highlighted.matches_to_highlight) :
            LET x == highlighted.matches_to_highlight[i]
                y == highlighted.matches_to_highlight[j]
            IN  (Overlaps(x, y) /\ Survives(i) /\ ~Survives(j))
                    => SpanLen(x) >= SpanLen(y)


\* the span x was accepted
Accepted(x) ==
    \E j \in 1..Len(highlighted.filtered_matches) :
        highlighted.filtered_matches[j] = x

\* in the order of discovery found, the span at j is shorter than the span
\* at i, found before it at the same start, and was not found before the
\* span at i as well; the shorter one was accepted and the longer one was
\* not
ShorterLaterRetained(found, i, j) ==
    /\ i < j
    /\ \A k \in 1..i : found[k] # found[j]
    /\ found[i].start = found[j].start
    /\ SpanLen(found[j]) < SpanLen(found[i])
    /\ Accepted(found[j])
    /\ ~Accepted(found[i])

\* whenever found holds such a pair with a shorter span that is not empty,
\* the longer span reaches into an accepted span that starts further right
OnlyBehindLaterStart(found) ==
    \A i, j \in 1..Len(found) :
        (ShorterLaterRetained(found, i, j) /\ SpanLen(found[j]) > 0)
            => \E k \in 1..Len(highlighted.filtered_matches) :
                   LET z == highlighted.filtered_matches[k]
                   IN  z.start > found[i].start /\ Overlaps(found[i], z)

\* C24: the scan can retain a shorter span discovered later and drop a
\* longer span of the same start discovered earlier; it does so only when
\* the longer span reaches into an accepted span that starts further right.
C24_ShorterCanSurvive ==
    pc = "highlighted" =>
        OnlyBehindLaterStart(CollectSpans(highlighted.terms, text))

\* a text and a query for which the shorter span discovered later is
\* retained and the longer span of the same start is dropped
C24_Witness ==
    /\ pc = "highlighted"
    /\ text = <<"a"," ","a">>
    /\ query = <<"a","*","a"," ","a">>
    /\ highlighted.highlighted_text = <<"[","a","]"," ","[","a","]">>
    /\ ShorterLaterRetained(CollectSpans(highlighted.terms, text), 1, 2)


-----------------------------------------------------------------------------
(* Properties of plain literal tokens                                      *)

\* the query is one token without quotes and wildcards that is no operator
IsPlainLiteral(q) ==
    /\ IsOneToken(q)
    /\ ~IsSkippedTerm(q)
    /\ \A i \in 1..Len(q) : q[i] \notin {"\"", "*", "?"}

\* a word character stands on exactly one side of offset p of txt
WordEdge(txt, p) ==
    LET left == IF p > 0 THEN IsWord(txt[p]) ELSE FALSE
        right == IF p < Len(txt) THEN IsWord(txt[p + 1]) ELSE FALSE
    IN  left # right

\* term occurs at offset p of txt, letters in either case
OccursAt(term, txt, p) ==
    /\ p + Len(term) <= Len(txt)
    /\ Lower(Slice(txt, p, p + Len(term))) = Lower(term)

\* the offsets of the whole-word occurrences of term in txt
WholeWordOffsets(term, txt) ==
    {p \in 0..Len(txt) :
        /\ OccursAt(term, txt, p)
        /\ WordEdge(txt, p)
        /\ WordEdge(txt, p + Len(term))}

\* the (start, end) pairs of the accepted spans
AcceptedSpans ==
    {<<highlighted.filtered_matches[k].start,
       highlighted.filtered_matches[k].end>> :
        k \in 1..Len(highlighted.filtered_matches)}

\* C25: for a plain literal token that has a whole-word occurrence in the
\* text, the bracketed spans are exactly its whole-word occurrences; when
\* it has none, every bracketed span holds an occurrence of the token.
C25_WholeWordFirst ==
    (pc = "highlighted" /\ IsPlainLiteral(query)) =>
        IF WholeWordOffsets(query, text) # {}
        THEN AcceptedSpans
                 = {<<p, p + Len(query)>> : p \in WholeWordOffsets(query, text)}
        ELSE \A sp \in AcceptedSpans :
                 \E p \in sp[1]..sp[2] :
                     OccursAt(query, text, p) /\ p + Len(query) <= sp[2]

\* a text with a whole-word occurrence of the token and an occurrence
\* inside a longer word: only the first is bracketed
C25_Witness ==
    /\ pc = "highlighted"
    /\ text = <<"B","a","B"," ","a","B","a","B">>
    /\ query = <<"b","a","b">>
    /\ highlighted.highlighted_text = <<"[","B","a","B","]"," ","a","B","a","B">>


\* no word character follows offset p of txt
NoWordAfter(txt, p) == p = Len(txt) \/ ~IsWord(txt[p + 1])

\* C26 as stated: every span bracketed for a plain literal token of one or
\* two characters starts at a word boundary and is followed by a non-word
\* character or the end of the text.
C26_Original ==
    (pc = "highlighted" /\ IsPlainLiteral(query) /\ Len(query) <= 2) =>
        \A sp \in AcceptedSpans :
            WordEdge(text, sp[1]) /\ NoWordAfter(text, sp[2])

\* C26 amended: every such span is an occurrence of the token that starts
\* at a word boundary and ends at a word boundary or before a non-word
\* character or at the end of the text; when the token ends with a word
\* character no word character follows the span.
C26_Amended ==
    (pc = "highlighted" /\ IsPlainLiteral(query) /\ Len(query) <= 2) =>
        \A sp \in AcceptedSpans :
            /\ OccursAt(query, text, sp[1])
            /\ sp[2] = sp[1] + Len(query)
            /\ WordEdge(text, sp[1])
            /\ WordEdge(text, sp[2]) \/ NoWordAfter(text, sp[2])
            /\ IsWord(query[Len(query)]) => NoWordAfter(text, sp[2])

\* a token of one letter was looked up in a text that has it only inside a
\* longer word, and nothing was bracketed
C26_Witness ==
    /\ pc = "highlighted"
    /\ query = <<"a">>
    /\ text = <<"a","B">>
    /\ highlighted.matches_to_highlight = <<>>
    /\ highlighted.highlighted_text = text


-----------------------------------------------------------------------------
(* Properties of the sort key, the connections and the enabled list        *)

\* the key search sorts a row by
KeyOf(r) ==
    <<SortOrderOf(r.translation),
      IF KnownBook(r) THEN IndexOfBook(r) ELSE 999,
      r.chapter, r.verse>>

\* C27: no two rows of a list search returns have the same (translation
\* sort order, book order index, chapter, verse), whatever sort orders the
\* user has given the translations.
C27_NoTies ==
    pc = "searched" =>
        \A i, j \in 1..Len(results) :
            i # j => KeyOf(results[i]) # KeyOf(results[j])


\* C28: when a search or a reading-window fetch has returned, every
\* connection it opened is closed.
C28_ConnectionsClosed ==
    pc \in {"searched", "read", "raised"} => connections = 0


\* the translations the registry flags as enabled
FlaggedEnabled ==
    {translations[i].abbreviation :
        i \in {k \in 1..Len(translations) : translations[k].enabled}}

\* the rows the same search returns, duplicates kept, when every
\* translation of the registry is named in the enabled list
RowsOfNamedTranslations ==
    search_verses(database, failing, translations,
                  load_book_order(book_rows, <<>>), query,
                  [i \in 1..Len(translations) |->
                      translations[i].abbreviation],
                  case_sensitive, FALSE, abbreviate_results).results

ElementsOf(list) == {list[i] : i \in 1..Len(list)}

\* the rows of list are of translations in named; without the unique
\* filter they are all the rows of such translations in all
RowsOfExactly(named, all, list) ==
    /\ \A i \in 1..Len(list) : list[i].translation \in named
    /\ ~unique_verses =>
           ElementsOf(list) = {r \in ElementsOf(all) : r.translation \in named}

\* C29: with a non-empty enabled list every row search returns is of a
\* translation the list names; with an empty list the rows are those of the
\* translations the registry flags as enabled.
C29_EnabledOnly ==
    pc = "searched" =>
        RowsOfExactly(IF enabled_translations # <<>>
                      THEN ElementsOf(enabled_translations)
                      ELSE FlaggedEnabled,
                      RowsOfNamedTranslations, results)

\* a search with an empty enabled list returned rows, and none of a
\* translation that has rows for the query but is not flagged enabled
C29_Witness ==
    /\ pc = "searched"
    /\ enabled_translations = <<>>
    /\ results # <<>>
    /\ \E i \in 1..Len(RowsOfNamedTranslations) :
           RowsOfNamedTranslations[i].translation \notin FlaggedEnabled


-----------------------------------------------------------------------------
(* Properties of compressed results                                        *)

\* the number of `[` minus the number of `]` in the first n characters of s
RECURSIVE Depth(_, _)
Depth(s, n) ==
    IF n = 0 THEN 0
    ELSE Depth(s, n - 1)
             + (IF s[n] = "[" THEN 1 ELSE IF s[n] = "]" THEN -1 ELSE 0)

\* every `[` of s is followed by its `]` before the next `[`, and no `]`
\* stands alone
Paired(s) ==
    /\ \A n \in 0..Len(s) : Depth(s, n) \in {0, 1}
    /\ Depth(s, Len(s)) = 0

\* C30: after the compress pass the highlighted text of every result has
\* paired delimiters and is, without them, the compressed text of the row.
C30_CompressedPaired ==
    (pc = "searched" /\ abbreviate_results) =>
        \A i \in 1..Len(results) :
            /\ Paired(results[i].highlighted_text)
            /\ StripBrackets(results[i].highlighted_text) = results[i].text

=============================================================================
